---------------------------- MODULE Spec2Model ----------------------------
(***************************************************************************)
(* Model of the Z.AI provider for the Vercel AI SDK (src/index.ts):         *)
(* credential resolution, model-alias resolution, list merging, the        *)
(* settings assembled by createZaiClaudeCode, the provider wrapper, the     *)
(* lazily constructed default provider and forceCustomTools.                *)
(*                                                                         *)
(* JavaScript values are represented as follows.                            *)
(*   - an optional value (T | undefined) is a sequence of length <= 1:      *)
(*     <<>> is undefined and <<v>> is the value v;                          *)
(*   - an object whose key order matters is a sequence of <<key, value>>    *)
(*     pairs with distinct keys, in insertion order;                        *)
(*   - an array is a sequence, a string is a string;                        *)
(*   - a call that may throw yields [threw, error, value].                  *)
(***************************************************************************)
EXTENDS Naturals, Sequences, FiniteSets, TLC

VARIABLES
    module,      \* "unloaded", "loaded" or "failed": evaluation of the module body
    env,         \* process.env: ZAI_API_KEY, ZAI_HTTP_FALLBACK_MODEL, ZAI_HTTP_MODEL
    inner,       \* the cache of createLazyDefaultProvider (behind zaiClaudeCode)
    zaiAnthropic,\* the default HTTP provider the module body constructs
    provider,    \* the provider returned by the latest successful createZaiClaudeCode
    httpProvider,\* the provider returned by the latest successful createZaiAnthropic
    input,       \* the arguments a caller holds for the operations it applies
    frame,       \* the call of forceCustomTools suspended at its await, if any
    last,        \* the latest operation: its name, arguments and outcome
    trace        \* the calls to external collaborators made by the latest operation

vars == <<module, env, inner, zaiAnthropic, provider, httpProvider, input, frame, last, trace>>

----------------------------------------------------------------------------
(* Bounds of the model *)

\* the longest list handed to a merge
MaxLen == 3
\* the most entries of a modelMappings override
MaxOverrides == 1

----------------------------------------------------------------------------
(* JavaScript values *)

undefined == <<>>
Some(v) == <<v>>
IsDefined(o) == o # undefined
Val(o) == o[1]

\* a ?? b on two optional values
Coalesce(a, b) == IF IsDefined(a) THEN a ELSE b

\* a ?? d where d is never undefined
OrElse(a, d) == IF IsDefined(a) THEN Val(a) ELSE d

\* !s for an optional string
FalsyString(o) == ~IsDefined(o) \/ Val(o) = ""

Return(v) == [threw |-> FALSE, error |-> "", value |-> v]
Throw(message) == [threw |-> TRUE, error |-> message, value |-> undefined]

ObjKeys(o) == {o[i][1] : i \in DOMAIN o}

\* o[k]
ObjGet(o, k) ==
    IF k \in ObjKeys(o)
    THEN Some(o[CHOOSE i \in DOMAIN o : o[i][1] = k][2])
    ELSE undefined

\* ObjSet as a delete followed by an insert: the key moves to the end
ObjSet_Reinsert(o, k, v) == Append(SelectSeq(o, LAMBDA e : e[1] # k), <<k, v>>)

\* o[k] = v: an existing key keeps its position, a new key goes last
ObjSet(o, k, v) ==
    IF k \in ObjKeys(o)
    THEN [i \in DOMAIN o |-> IF o[i][1] = k THEN <<k, v>> ELSE o[i]]
    ELSE Append(o, <<k, v>>)

\* Spread with the operands' precedence exchanged: a key of target keeps its value
RECURSIVE Spread_TargetWins(_, _)
Spread_TargetWins(target, source) ==
    IF source = <<>>
    THEN target
    ELSE IF Head(source)[1] \in ObjKeys(target)
         THEN Spread_TargetWins(target, Tail(source))
         ELSE Spread_TargetWins(Append(target, Head(source)), Tail(source))

\* { ...target, ...source }
RECURSIVE Spread(_, _)
Spread(target, source) ==
    IF source = <<>>
    THEN target
    ELSE Spread(ObjSet(target, Head(source)[1], Head(source)[2]), Tail(source))

\* array.includes(x)
Includes(array, x) == \E i \in DOMAIN array : array[i] = x

\* array.join(separator)
RECURSIVE Join(_, _)
Join(array, separator) ==
    IF array = <<>> THEN ""
    ELSE IF Len(array) = 1 THEN array[1]
    ELSE array[1] \o separator \o Join(Tail(array), separator)

\* String(n) for a non-negative integer n
RECURSIVE String(_)
String(n) ==
    IF n < 10
    THEN SubSeq("0123456789", n + 1, n + 1)
    ELSE String(n \div 10) \o SubSeq("0123456789", (n % 10) + 1, (n % 10) + 1)

----------------------------------------------------------------------------
(* Constants of the program *)

CLAUDE_ALIASES == <<"sonnet", "opus", "haiku">>

DEFAULT_ANTHROPIC_BASE_URL == "https://api.z.ai/api/anthropic"
DEFAULT_TIMEOUT_MS == 300000
DEFAULT_CUSTOM_TOOLS_SYSTEM_PROMPT ==
    "You are running inside the Claude Code CLI with only custom developer-provided tools available. NEVER call Bash, Task, Shell, or any CLI tool; those calls will fail. Only use the explicitly provided tools and wait for a user tool_result before responding."
DEFAULT_CUSTOM_TOOLS_DISALLOWED == <<"Bash(*)", "Task(*)">>

DEFAULT_MODEL_MAPPINGS ==
    << <<"sonnet", "glm-4.6">>, <<"opus", "glm-4.6">>, <<"haiku", "glm-4.5-air">> >>

CORE_ALLOWED_TOOLS ==
    <<"Bash", "Read", "Write", "Edit", "LS", "Grep", "Glob", "TodoRead", "TodoWrite">>
WEB_SEARCH_ALLOWED_TOOLS == <<"mcp__web-search-prime__webSearchPrime">>
WEB_READER_ALLOWED_TOOLS == <<"mcp__web-reader__webReader", "WebFetch">>
VISION_ALLOWED_TOOLS ==
    <<"mcp__zai-vision__image_analysis", "mcp__zai-vision__video_analysis",
      "mcp__zai-vision__analyze_image", "mcp__zai-vision__analyze_video">>

MISSING_KEY_MESSAGE == "ZAI_API_KEY is required. Pass options.apiKey or set the env var."

----------------------------------------------------------------------------
(* mergeAllowedTools, mergeStringLists *)

\* MergeLoop without its test for an empty entry
RECURSIVE MergeLoop_KeepsEmpty(_, _)
MergeLoop_KeepsEmpty(merged, user) ==
    IF user = <<>>
    THEN merged
    ELSE IF Includes(merged, Head(user))
         THEN MergeLoop_KeepsEmpty(merged, Tail(user))
         ELSE MergeLoop_KeepsEmpty(Append(merged, Head(user)), Tail(user))

\* the for-loop of a merge: each entry of user that is non-empty and not yet
\* in merged is pushed
RECURSIVE MergeLoop(_, _)
MergeLoop(merged, user) ==
    IF user = <<>>
    THEN merged
    ELSE IF Head(user) = "" \/ Includes(merged, Head(user))
         THEN MergeLoop(merged, Tail(user))
         ELSE MergeLoop(Append(merged, Head(user)), Tail(user))

mergeAllowedTools(defaults, user) ==
    LET merged == IF IsDefined(user) /\ Len(Val(user)) > 0
                  THEN MergeLoop(defaults, Val(user))
                  ELSE defaults
    IN  IF Len(merged) > 0 THEN Some(merged) ELSE undefined

\* mergeStringLists with the defaults run through the loop as well, which
\* drops their repeated and empty entries
mergeStringLists_FiltersDefaults(defaults, user) ==
    LET merged == MergeLoop(MergeLoop(<<>>, defaults), OrElse(user, <<>>))
    IN  IF Len(merged) > 0 THEN Some(merged) ELSE undefined

mergeStringLists(defaults, user) ==
    LET merged == IF IsDefined(user) /\ Len(Val(user)) > 0
                  THEN MergeLoop(defaults, Val(user))
                  ELSE defaults
    IN  IF Len(merged) > 0 THEN Some(merged) ELSE undefined

----------------------------------------------------------------------------
(* resolveModelId *)

\* ScanMappings without its early return: the last match is the result
RECURSIVE ScanMappings_Last(_, _)
ScanMappings_Last(entries, requestedId) ==
    IF entries = <<>>
    THEN undefined
    ELSE IF entries[Len(entries)][2] = requestedId
         THEN Some(entries[Len(entries)][1])
         ELSE ScanMappings_Last(SubSeq(entries, 1, Len(entries) - 1), requestedId)

\* the for-of over Object.entries(mappings)
RECURSIVE ScanMappings(_, _)
ScanMappings(entries, requestedId) ==
    IF entries = <<>>
    THEN undefined
    ELSE IF Head(entries)[2] = requestedId
         THEN Some(Head(entries)[1])
         ELSE ScanMappings(Tail(entries), requestedId)

UnsupportedModelMessage(requestedId) ==
    "Unsupported model \"" \o requestedId \o "\". Use one of "
        \o Join(CLAUDE_ALIASES, ", ")
        \o " or provide a matching entry via modelMappings."

\* resolveModelId with the scan of the table ahead of the test for an alias name
resolveModelId_ScanFirst(requestedId, mappings) ==
    LET found == ScanMappings(mappings, requestedId)
    IN  IF IsDefined(found)
        THEN Return(Val(found))
        ELSE IF Includes(CLAUDE_ALIASES, requestedId)
             THEN Return(requestedId)
             ELSE Throw(UnsupportedModelMessage(requestedId))

\* resolveModelId with a default alias in place of the error
resolveModelId_DefaultsToSonnet(requestedId, mappings) ==
    IF Includes(CLAUDE_ALIASES, requestedId)
    THEN Return(requestedId)
    ELSE LET found == ScanMappings(mappings, requestedId)
         IN  Return(OrElse(found, "sonnet"))

resolveModelId(requestedId, mappings) ==
    IF Includes(CLAUDE_ALIASES, requestedId)
    THEN Return(requestedId)
    ELSE LET found == ScanMappings(mappings, requestedId)
         IN  IF IsDefined(found)
             THEN Return(Val(found))
             ELSE Throw(UnsupportedModelMessage(requestedId))

----------------------------------------------------------------------------
(* mergeSystemPromptAppend *)

Whitespace == {" ", "\t", "\n", "\r"}

\* !Boolean(part?.trim()): undefined, empty or nothing but white space
IsBlank(part) ==
    ~IsDefined(part)
        \/ \A i \in 1..Len(Val(part)) : SubSeq(Val(part), i, i) \in Whitespace

\* mergeSystemPromptAppend filtering with Boolean(part), without the trim
mergeSystemPromptAppend_KeepsBlank(customAppend, userAppend) ==
    LET parts == SelectSeq(<<customAppend, userAppend>>, LAMBDA part : ~FalsyString(part))
    IN  IF Len(parts) = 0
        THEN undefined
        ELSE Some(Join([i \in DOMAIN parts |-> Val(parts[i])], "\n\n"))

mergeSystemPromptAppend(customAppend, userAppend) ==
    LET parts == SelectSeq(<<customAppend, userAppend>>, LAMBDA part : ~IsBlank(part))
    IN  IF Len(parts) = 0
        THEN undefined
        ELSE Some(Join([i \in DOMAIN parts |-> Val(parts[i])], "\n\n"))

----------------------------------------------------------------------------
(* buildZaiEnv *)

\* buildZaiEnv with the default timeout in place of its argument
buildZaiEnv_DefaultTimeout(anthropicBaseUrl, apiKey, timeoutMs, modelMappings) ==
    << <<"ANTHROPIC_BASE_URL", anthropicBaseUrl>>,
       <<"ANTHROPIC_AUTH_TOKEN", apiKey>>,
       <<"API_TIMEOUT_MS", String(DEFAULT_TIMEOUT_MS)>>,
       <<"ANTHROPIC_DEFAULT_SONNET_MODEL", Val(ObjGet(modelMappings, "sonnet"))>>,
       <<"ANTHROPIC_DEFAULT_OPUS_MODEL", Val(ObjGet(modelMappings, "opus"))>>,
       <<"ANTHROPIC_DEFAULT_HAIKU_MODEL", Val(ObjGet(modelMappings, "haiku"))>> >>

buildZaiEnv(anthropicBaseUrl, apiKey, timeoutMs, modelMappings) ==
    << <<"ANTHROPIC_BASE_URL", anthropicBaseUrl>>,
       <<"ANTHROPIC_AUTH_TOKEN", apiKey>>,
       <<"API_TIMEOUT_MS", String(timeoutMs)>>,
       <<"ANTHROPIC_DEFAULT_SONNET_MODEL", Val(ObjGet(modelMappings, "sonnet"))>>,
       <<"ANTHROPIC_DEFAULT_OPUS_MODEL", Val(ObjGet(modelMappings, "opus"))>>,
       <<"ANTHROPIC_DEFAULT_HAIKU_MODEL", Val(ObjGet(modelMappings, "haiku"))>> >>

----------------------------------------------------------------------------
(* normalizeCustomToolsOnlyOptions *)

\* options.customToolsOnly: undefined, a boolean or a CustomToolsOnlyOptions
NoCustomToolsOnly ==
    [kind |-> "undefined", bool |-> FALSE,
     systemPrompt |-> undefined, appendSystemPrompt |-> undefined,
     allowedTools |-> undefined, disallowedTools |-> undefined]

CustomToolsOnlyFlag(b) == [NoCustomToolsOnly EXCEPT !.kind = "boolean", !.bool = b]

CustomToolsOnlyObject(systemPrompt, appendSystemPrompt, allowedTools, disallowedTools) ==
    [kind |-> "object", bool |-> FALSE,
     systemPrompt |-> systemPrompt, appendSystemPrompt |-> appendSystemPrompt,
     allowedTools |-> allowedTools, disallowedTools |-> disallowedTools]

normalizeCustomToolsOnlyOptions(customToolsOnly) ==
    IF customToolsOnly.kind = "undefined"
        \/ (customToolsOnly.kind = "boolean" /\ ~customToolsOnly.bool)
    THEN [enabled |-> FALSE, allowedTools |-> <<>>, disallowedTools |-> <<>>,
          systemPrompt |-> undefined, appendSystemPrompt |-> undefined]
    ELSE [enabled |-> TRUE,
          allowedTools |-> OrElse(customToolsOnly.allowedTools, <<>>),
          disallowedTools |->
              OrElse(mergeStringLists(DEFAULT_CUSTOM_TOOLS_DISALLOWED,
                                      customToolsOnly.disallowedTools), <<>>),
          systemPrompt |-> customToolsOnly.systemPrompt,
          appendSystemPrompt |-> customToolsOnly.appendSystemPrompt]

----------------------------------------------------------------------------
(* mergeMcpServers *)

WEB_SEARCH_SERVER == "https://api.z.ai/api/mcp/web_search_prime/mcp"
WEB_READER_SERVER == "https://api.z.ai/api/mcp/web_reader/mcp"

DefaultVisionArgs == <<"-y", "@z_ai/mcp-server">>
DefaultVisionCommand == [command |-> "npx", args |-> Some(DefaultVisionArgs), env |-> undefined]

HttpServer(url, apiKey) ==
    [type |-> "http", url |-> url,
     headers |-> << <<"Authorization", "Bearer " \o apiKey>> >>]

VisionServer(apiKey, visionCommand) ==
    LET cmd == OrElse(visionCommand, DefaultVisionCommand)
    IN  [type |-> "stdio",
         command |-> cmd.command,
         args |-> OrElse(cmd.args, DefaultVisionArgs),
         env |-> Spread(<< <<"Z_AI_API_KEY", apiKey>>, <<"Z_AI_MODE", "ZAI">> >>,
                        OrElse(cmd.env, <<>>))]

\* mergeMcpServers with a built-in descriptor kept where the caller's has its key
mergeMcpServers_BuiltinsWin(apiKey, enableVision, enableWebReader, enableWebSearch, userMcpServers, visionCommand) ==
    LET withSearch == IF enableWebSearch
                      THEN << <<"web-search-prime", HttpServer(WEB_SEARCH_SERVER, apiKey)>> >>
                      ELSE <<>>
        withReader == IF enableWebReader
                      THEN ObjSet(withSearch, "web-reader", HttpServer(WEB_READER_SERVER, apiKey))
                      ELSE withSearch
        defaults   == IF enableVision
                      THEN ObjSet(withReader, "zai-vision", VisionServer(apiKey, visionCommand))
                      ELSE withReader
    IN  IF IsDefined(userMcpServers)
        THEN Some(Spread_TargetWins(defaults, Val(userMcpServers)))
        ELSE IF Len(defaults) > 0 THEN Some(defaults) ELSE undefined

mergeMcpServers(apiKey, enableVision, enableWebReader, enableWebSearch, userMcpServers, visionCommand) ==
    LET withSearch == IF enableWebSearch
                      THEN << <<"web-search-prime", HttpServer(WEB_SEARCH_SERVER, apiKey)>> >>
                      ELSE <<>>
        withReader == IF enableWebReader
                      THEN ObjSet(withSearch, "web-reader", HttpServer(WEB_READER_SERVER, apiKey))
                      ELSE withSearch
        defaults   == IF enableVision
                      THEN ObjSet(withReader, "zai-vision", VisionServer(apiKey, visionCommand))
                      ELSE withReader
    IN  IF IsDefined(userMcpServers)
        THEN Some(Spread(defaults, Val(userMcpServers)))
        ELSE IF Len(defaults) > 0 THEN Some(defaults) ELSE undefined

----------------------------------------------------------------------------
(* createZaiClaudeCode *)

\* options.defaultSettings = {}
EmptySettings ==
    [permissionMode |-> undefined, allowedTools |-> undefined,
     disallowedTools |-> undefined, systemPrompt |-> undefined,
     appendSystemPrompt |-> undefined, env |-> undefined, mcpServers |-> undefined]

\* options = {}
EmptyOptions ==
    [apiKey |-> undefined, anthropicBaseUrl |-> undefined, timeoutMs |-> undefined,
     modelMappings |-> undefined, includeDefaultAllowedTools |-> undefined,
     enableWebSearchMcp |-> undefined, enableWebReaderMcp |-> undefined,
     enableVisionMcp |-> undefined, visionCommand |-> undefined,
     customToolsOnly |-> NoCustomToolsOnly, defaultSettings |-> undefined]

\* the outcome of an operation together with the external calls it made
Outcome(result, calls) ==
    [threw |-> result.threw, error |-> result.error, value |-> result.value,
     calls |-> calls]

\* const apiKey = options.apiKey ?? process.env.ZAI_API_KEY
ResolveApiKey(explicitKey, ambientKey) == Coalesce(explicitKey, ambientKey)

\* EnableFlag with the policy's suppression left out
EnableFlag_IgnoresPolicy(customToolsOnly, flag) == OrElse(flag, TRUE)

\* let enable = options.flag ?? true; if (customToolsOnly.enabled) enable = false
EnableFlag(customToolsOnly, flag) == ~customToolsOnly.enabled /\ OrElse(flag, TRUE)

\* BaselineAllowedTools with the built-in groups ahead of the policy's list
BaselineAllowedTools_KeepsBuiltins(customToolsOnly, includeDefaultTools, enableWebSearch, enableWebReader, enableVision) ==
    CORE_ALLOWED_TOOLS \o customToolsOnly.allowedTools

\* BaselineAllowedTools with the web-reader group following the web-search flag
BaselineAllowedTools_ReaderFollowsSearch(customToolsOnly, includeDefaultTools, enableWebSearch, enableWebReader, enableVision) ==
    IF customToolsOnly.enabled
    THEN customToolsOnly.allowedTools
    ELSE (IF includeDefaultTools THEN CORE_ALLOWED_TOOLS ELSE <<>>)
         \o (IF enableWebSearch THEN WEB_SEARCH_ALLOWED_TOOLS ELSE <<>>)
         \o (IF enableWebSearch THEN WEB_READER_ALLOWED_TOOLS ELSE <<>>)
         \o (IF enableVision THEN VISION_ALLOWED_TOOLS ELSE <<>>)

\* BaselineAllowedTools with the vision group ahead of the web groups
BaselineAllowedTools_VisionFirst(customToolsOnly, includeDefaultTools, enableWebSearch, enableWebReader, enableVision) ==
    IF customToolsOnly.enabled
    THEN customToolsOnly.allowedTools
    ELSE (IF includeDefaultTools THEN CORE_ALLOWED_TOOLS ELSE <<>>)
         \o (IF enableVision THEN VISION_ALLOWED_TOOLS ELSE <<>>)
         \o (IF enableWebSearch THEN WEB_SEARCH_ALLOWED_TOOLS ELSE <<>>)
         \o (IF enableWebReader THEN WEB_READER_ALLOWED_TOOLS ELSE <<>>)

\* const baselineAllowedTools = customToolsOnly.enabled ? ... : [...]
BaselineAllowedTools(customToolsOnly, includeDefaultTools, enableWebSearch, enableWebReader, enableVision) ==
    IF customToolsOnly.enabled
    THEN customToolsOnly.allowedTools
    ELSE (IF includeDefaultTools THEN CORE_ALLOWED_TOOLS ELSE <<>>)
         \o (IF enableWebSearch THEN WEB_SEARCH_ALLOWED_TOOLS ELSE <<>>)
         \o (IF enableWebReader THEN WEB_READER_ALLOWED_TOOLS ELSE <<>>)
         \o (IF enableVision THEN VISION_ALLOWED_TOOLS ELSE <<>>)

\* ShouldApplyDisallowed without the test of the allowlist
ShouldApplyDisallowed_Always(customToolsOnly, allowedTools) == TRUE

\* const shouldApplyDisallowed = customToolsOnly.enabled ? !allowedTools?.length : true
ShouldApplyDisallowed(customToolsOnly, allowedTools) ==
    IF customToolsOnly.enabled THEN ~IsDefined(allowedTools) ELSE TRUE

\* DisallowedTools without the policy's list
DisallowedTools_DefaultsOnly(customToolsOnly, userDefaults, allowedTools) ==
    IF ShouldApplyDisallowed(customToolsOnly, allowedTools)
    THEN mergeStringLists(<<>>, userDefaults.disallowedTools)
    ELSE undefined

\* const disallowedTools = shouldApplyDisallowed ? mergeStringLists(...) : undefined
DisallowedTools(customToolsOnly, userDefaults, allowedTools) ==
    IF ShouldApplyDisallowed(customToolsOnly, allowedTools)
    THEN mergeStringLists(
             IF customToolsOnly.enabled THEN customToolsOnly.disallowedTools ELSE <<>>,
             userDefaults.disallowedTools)
    ELSE undefined

\* SystemPrompt with defaultSettings' prompt ahead of the policy's
SystemPrompt_DefaultsFirst(customToolsOnly, userDefaults) ==
    IF customToolsOnly.enabled
    THEN Some(OrElse(Coalesce(userDefaults.systemPrompt, customToolsOnly.systemPrompt),
                     DEFAULT_CUSTOM_TOOLS_SYSTEM_PROMPT))
    ELSE userDefaults.systemPrompt

\* const systemPrompt = customToolsOnly.enabled ? a ?? b ?? DEFAULT : userDefaults.systemPrompt
SystemPrompt(customToolsOnly, userDefaults) ==
    IF customToolsOnly.enabled
    THEN Some(OrElse(Coalesce(customToolsOnly.systemPrompt, userDefaults.systemPrompt),
                     DEFAULT_CUSTOM_TOOLS_SYSTEM_PROMPT))
    ELSE userDefaults.systemPrompt

\* const appendSystemPrompt = customToolsOnly.enabled ? mergeSystemPromptAppend(...) : ...
AppendSystemPrompt(customToolsOnly, userDefaults) ==
    IF customToolsOnly.enabled
    THEN mergeSystemPromptAppend(customToolsOnly.appendSystemPrompt,
                                 userDefaults.appendSystemPrompt)
    ELSE userDefaults.appendSystemPrompt

\* PermissionMode with the caller's value left out
PermissionMode_AlwaysBypass(userDefaults) == "bypassPermissions"

\* permissionMode: userDefaults.permissionMode ?? 'bypassPermissions'
PermissionMode(userDefaults) == OrElse(userDefaults.permissionMode, "bypassPermissions")

\* the settings createZaiClaudeCode hands to createClaudeCode
ResolvedSettings(options, apiKey) ==
    LET anthropicBaseUrl == OrElse(options.anthropicBaseUrl, DEFAULT_ANTHROPIC_BASE_URL)
        timeoutMs        == OrElse(options.timeoutMs, DEFAULT_TIMEOUT_MS)
        modelMappings    == Spread(DEFAULT_MODEL_MAPPINGS, OrElse(options.modelMappings, <<>>))
        customToolsOnly  == normalizeCustomToolsOnlyOptions(options.customToolsOnly)
        includeDefaultTools == EnableFlag(customToolsOnly, options.includeDefaultAllowedTools)
        enableWebSearch  == EnableFlag(customToolsOnly, options.enableWebSearchMcp)
        enableWebReader  == EnableFlag(customToolsOnly, options.enableWebReaderMcp)
        enableVision     == EnableFlag(customToolsOnly, options.enableVisionMcp)
        userDefaults     == OrElse(options.defaultSettings, EmptySettings)
        baselineAllowedTools ==
            BaselineAllowedTools(customToolsOnly, includeDefaultTools,
                                 enableWebSearch, enableWebReader, enableVision)
        allowedTools == mergeAllowedTools(baselineAllowedTools, userDefaults.allowedTools)
    IN  [permissionMode |-> PermissionMode(userDefaults),
         allowedTools |-> allowedTools,
         disallowedTools |-> DisallowedTools(customToolsOnly, userDefaults, allowedTools),
         systemPrompt |-> SystemPrompt(customToolsOnly, userDefaults),
         appendSystemPrompt |-> AppendSystemPrompt(customToolsOnly, userDefaults),
         env |-> Spread(buildZaiEnv(anthropicBaseUrl, apiKey, timeoutMs, modelMappings),
                        OrElse(userDefaults.env, <<>>)),
         mcpServers |-> mergeMcpServers(apiKey, enableVision, enableWebReader,
                                        enableWebSearch, userDefaults.mcpServers,
                                        options.visionCommand)]

\* the provider wrapProviderWithModelResolution returns: the base provider that
\* createClaudeCode made and the alias table its entry points resolve against
wrapProviderWithModelResolution(baseProvider, mappings) ==
    [base |-> baseProvider, mappings |-> mappings]

\* the external provider factory: createClaudeCode({ defaultSettings })
createClaudeCode(defaultSettings) == [defaultSettings |-> defaultSettings]

\* createZaiClaudeCode with the test of the key after the call of the factory
createZaiClaudeCode_FactoryFirst(options, ambientKey) ==
    LET apiKey == ResolveApiKey(options.apiKey, ambientKey)
        modelMappings == Spread(DEFAULT_MODEL_MAPPINGS, OrElse(options.modelMappings, <<>>))
        resolvedSettings == ResolvedSettings(options, OrElse(apiKey, "undefined"))
        calls == << [fn |-> "createClaudeCode", args |-> <<resolvedSettings>>] >>
    IN  IF FalsyString(apiKey)
        THEN Outcome(Throw(MISSING_KEY_MESSAGE), calls)
        ELSE Outcome(
                 Return(wrapProviderWithModelResolution(
                            createClaudeCode(resolvedSettings), modelMappings)),
                 calls)

createZaiClaudeCode(options, ambientKey) ==
    LET apiKey == ResolveApiKey(options.apiKey, ambientKey)
    IN  IF FalsyString(apiKey)
        THEN Outcome(Throw(MISSING_KEY_MESSAGE), <<>>)
        ELSE LET modelMappings == Spread(DEFAULT_MODEL_MAPPINGS,
                                         OrElse(options.modelMappings, <<>>))
                 resolvedSettings == ResolvedSettings(options, Val(apiKey))
             IN  Outcome(
                     Return(wrapProviderWithModelResolution(
                                createClaudeCode(resolvedSettings), modelMappings)),
                     << [fn |-> "createClaudeCode", args |-> <<resolvedSettings>>] >>)

----------------------------------------------------------------------------
(* wrapProviderWithModelResolution: the entry points of a provider *)

\* provider(modelId, settings), provider.languageModel, provider.chat
ResolvingEntries == {"call", "languageModel", "chat"}
\* provider.imageModel, provider.textEmbeddingModel
BoundEntries == {"imageModel", "textEmbeddingModel"}
Entries == ResolvingEntries \cup BoundEntries

\* the external base provider: a call of one of its entry points returns a
\* model handle carrying the identifier it was given and its default settings
BaseProviderCall(baseProvider, entry, modelId, settings) ==
    Outcome(Return([entry |-> entry, modelId |-> modelId,
                    settings |-> baseProvider.defaultSettings,
                    callSettings |-> settings]),
            << [fn |-> entry, args |-> <<modelId, settings>>] >>)

\* WrappedProviderCall with chat bound to the base provider like imageModel
WrappedProviderCall_RawChat(p, entry, modelId, settings) ==
    IF entry \in ResolvingEntries \ {"chat"}
    THEN LET resolved == resolveModelId(modelId, p.mappings)
         IN  IF resolved.threw
             THEN Outcome(resolved, <<>>)
             ELSE BaseProviderCall(p.base, entry, resolved.value, settings)
    ELSE BaseProviderCall(p.base, entry, modelId, settings)

\* an entry point of the provider wrapProviderWithModelResolution returns
WrappedProviderCall(p, entry, modelId, settings) ==
    IF entry \in ResolvingEntries
    THEN LET resolved == resolveModelId(modelId, p.mappings)
         IN  IF resolved.threw
             THEN Outcome(resolved, <<>>)
             ELSE BaseProviderCall(p.base, entry, resolved.value, settings)
    ELSE BaseProviderCall(p.base, entry, modelId, settings)

----------------------------------------------------------------------------
(* createLazyDefaultProvider *)

\* Ensure without its cache: every call constructs a provider
Ensure_AlwaysConstructs(cache, ambientKey) == createZaiClaudeCode(EmptyOptions, ambientKey)

\* ensure(): inner ??= createZaiClaudeCode()
Ensure(cache, ambientKey) ==
    IF IsDefined(cache)
    THEN Outcome(Return(Val(cache)), <<>>)
    ELSE createZaiClaudeCode(EmptyOptions, ambientKey)

\* LazyProviderCall storing a provider without a key when ensure() fails
LazyProviderCall_StoresFailure(cache, ambientKey, entry, modelId, settings) ==
    LET ensured == Ensure(cache, ambientKey)
    IN  IF ensured.threw
        THEN [outcome |-> ensured,
              inner |-> Some(wrapProviderWithModelResolution(
                                 createClaudeCode(ResolvedSettings(EmptyOptions, "")),
                                 DEFAULT_MODEL_MAPPINGS))]
        ELSE LET called == WrappedProviderCall(
                               ensured.value, entry, modelId,
                               IF entry \in ResolvingEntries THEN settings ELSE undefined)
             IN  [outcome |-> [called EXCEPT !.calls = ensured.calls \o called.calls],
                  inner |-> Some(ensured.value)]

\* an entry point of the lazy provider; yields the outcome and the cache after it
LazyProviderCall(cache, ambientKey, entry, modelId, settings) ==
    LET ensured == Ensure(cache, ambientKey)
    IN  IF ensured.threw
        THEN [outcome |-> ensured, inner |-> cache]
        ELSE LET called == WrappedProviderCall(
                               ensured.value, entry, modelId,
                               IF entry \in ResolvingEntries THEN settings ELSE undefined)
             IN  [outcome |-> [called EXCEPT !.calls = ensured.calls \o called.calls],
                  inner |-> Some(ensured.value)]

----------------------------------------------------------------------------
(* createZaiAnthropic, resolveAnthropicHttpModelId *)

DEFAULT_HTTP_COMPAT_MODEL == "claude-4.5-sonnet-20241022"

\* GLM_HTTP_PATTERN = /^glm-/i
GlmPrefixes == {"glm-", "glM-", "gLm-", "gLM-", "Glm-", "GlM-", "GLm-", "GLM-"}
\* GLM_HTTP_PATTERN without its i flag
GLM_HTTP_PATTERN_CaseSensitive(requestedId) ==
    Len(requestedId) >= 4 /\ SubSeq(requestedId, 1, 4) = "glm-"

GLM_HTTP_PATTERN(requestedId) ==
    Len(requestedId) >= 4 /\ SubSeq(requestedId, 1, 4) \in GlmPrefixes

\* glmFallbackModel: a string, or false
FallbackString(modelId) == [isFalse |-> FALSE, model |-> modelId]
FallbackFalse == [isFalse |-> TRUE, model |-> ""]

GlmOnlyCliMessage(requestedId) ==
    "Model \"" \o requestedId
        \o "\" is only supported via the Claude Code CLI today. Pass a Claude-compatible HTTP model (e.g., "
        \o DEFAULT_HTTP_COMPAT_MODEL
        \o ") or enable customToolsOnly with CLI workflows."

resolveAnthropicHttpModelId(requestedId, fallbackModel) ==
    IF ~GLM_HTTP_PATTERN(requestedId)
    THEN Return(requestedId)
    ELSE IF fallbackModel.isFalse
         THEN Throw(GlmOnlyCliMessage(requestedId))
         ELSE Return(IF fallbackModel.model # ""
                     THEN fallbackModel.model
                     ELSE DEFAULT_HTTP_COMPAT_MODEL)

\* options = {} of createZaiAnthropic
EmptyHttpOptions == [apiKey |-> undefined, baseURL |-> undefined, glmFallbackModel |-> undefined]

\* process.env with only ZAI_API_KEY possibly set
EnvWithKey(key) ==
    [ZAI_API_KEY |-> key, ZAI_HTTP_FALLBACK_MODEL |-> undefined, ZAI_HTTP_MODEL |-> undefined]

OptionalFallbackString(o) == IF IsDefined(o) THEN Some(FallbackString(Val(o))) ELSE undefined

createZaiAnthropic(options, environment) ==
    LET apiKey == ResolveApiKey(options.apiKey, environment.ZAI_API_KEY)
    IN  IF FalsyString(apiKey)
        THEN Outcome(Throw(MISSING_KEY_MESSAGE), <<>>)
        ELSE LET baseURL == OrElse(options.baseURL, DEFAULT_ANTHROPIC_BASE_URL \o "/v1")
                 glmFallbackModel ==
                     OrElse(Coalesce(options.glmFallbackModel,
                              Coalesce(OptionalFallbackString(environment.ZAI_HTTP_FALLBACK_MODEL),
                                       OptionalFallbackString(environment.ZAI_HTTP_MODEL))),
                            FallbackString(DEFAULT_HTTP_COMPAT_MODEL))
             IN  Outcome(
                     Return([apiKey |-> Val(apiKey), baseURL |-> baseURL,
                             glmFallbackModel |-> glmFallbackModel]),
                     << [fn |-> "createAnthropic",
                         args |-> << [apiKey |-> Val(apiKey), baseURL |-> baseURL] >>] >>)

\* the function createZaiAnthropic returns, applied to modelId:
\* anthropic(resolveAnthropicHttpModelId(modelId, glmFallbackModel))
HttpProviderCall(p, modelId) ==
    LET resolved == resolveAnthropicHttpModelId(modelId, p.glmFallbackModel)
    IN  IF resolved.threw
        THEN Outcome(resolved, <<>>)
        ELSE Outcome(Return([modelId |-> resolved.value, apiKey |-> p.apiKey,
                             baseURL |-> p.baseURL]),
                     << [fn |-> "anthropic", args |-> <<resolved.value>>] >>)

----------------------------------------------------------------------------
(* forceCustomTools *)

\* the default of the parameter acknowledgement
DEFAULT_ACKNOWLEDGEMENT ==
    "Tool call completed. Use the result above verbatim and do not attempt to call CLI tools."

ToolNotFoundMessage(toolName) ==
    "Tool \"" \o toolName \o "\" is not defined or missing an execute handler."

\* the external streaming engine: streamText(args) returns a handle on the
\* request it was given
streamText(args) == [streamed |-> args]

\* IsExecutable without its test of the type of execute
IsExecutable_AnyTool(tools, toolName) == IsDefined(ObjGet(tools, toolName))

\* !(!tool || typeof tool.execute !== 'function') for tool = tools[toolName]
IsExecutable(tools, toolName) ==
    LET tool == ObjGet(tools, toolName)
    IN  IsDefined(tool) /\ Val(tool).execute = Some("function")

\* the call tool.execute(toolInput, { toolCallId, messages })
ExecuteCall(args) ==
    [fn |-> "execute",
     tool |-> args.toolName,
     args |-> <<args.toolInput,
                [toolCallId |-> "forced:" \o args.toolName, messages |-> args.messages]>>]

\* forceCustomTools up to its await: the test of the tool, then the call of
\* its execute
ForceBegin(args) ==
    IF ~IsExecutable(args.tools, args.toolName)
    THEN Outcome(Throw(ToolNotFoundMessage(args.toolName)), <<>>)
    ELSE Outcome(Return(undefined), <<ExecuteCall(args)>>)

\* ManualBlocks with the text block pushed first
ManualBlocks_TextFirst(toolName, toolInput, manualResult, acknowledgement) ==
    (IF acknowledgement # ""
     THEN << [type |-> "text", text |-> acknowledgement] >>
     ELSE <<>>)
    \o << [type |-> "tool-call", toolName |-> toolName, args |-> toolInput],
          [type |-> "tool-result", toolName |-> toolName, result |-> manualResult] >>

\* manualBlocks: the tool-call block, the tool-result block and, when the
\* acknowledgement is truthy, a text block
ManualBlocks(toolName, toolInput, manualResult, acknowledgement) ==
    << [type |-> "tool-call", toolName |-> toolName, args |-> toolInput],
       [type |-> "tool-result", toolName |-> toolName, result |-> manualResult] >>
    \o (IF acknowledgement # ""
        THEN << [type |-> "text", text |-> acknowledgement] >>
        ELSE <<>>)

\* augmentedMessages: a system message, the caller's messages, the synthetic
\* assistant turn
AugmentedMessages(systemPrompt, messages, manualBlocks) ==
    << [role |-> "system",
        content |-> OrElse(systemPrompt, DEFAULT_CUSTOM_TOOLS_SYSTEM_PROMPT)] >>
    \o messages
    \o << [role |-> "assistant", content |-> manualBlocks] >>

\* StreamTextArgs leaving the choice of the tool to the model
StreamTextArgs_AutoChoice(args, manualResult) ==
    [model |-> args.model,
     tools |-> args.tools,
     toolChoice |-> [type |-> "auto"],
     messages |-> AugmentedMessages(
                      args.systemPrompt, args.messages,
                      ManualBlocks(args.toolName, args.toolInput, manualResult,
                                   OrElse(args.acknowledgement, DEFAULT_ACKNOWLEDGEMENT)))]

\* the argument of streamText
StreamTextArgs(args, manualResult) ==
    [model |-> args.model,
     tools |-> args.tools,
     toolChoice |-> [type |-> "tool", toolName |-> args.toolName],
     messages |-> AugmentedMessages(
                      args.systemPrompt, args.messages,
                      ManualBlocks(args.toolName, args.toolInput, manualResult,
                                   OrElse(args.acknowledgement, DEFAULT_ACKNOWLEDGEMENT)))]

\* ForceSettle delegating to streamText whatever execute did
ForceSettle_IgnoresFailure(args, settled) ==
    LET call == StreamTextArgs(args, settled.value)
    IN  [outcome |-> Outcome(Return(streamText(call)),
                             << [fn |-> "streamText", args |-> <<call>>] >>),
         messages |-> args.messages,
         tools |-> args.tools]

\* forceCustomTools from its await on, execute having settled: a failure of
\* execute leaves the function, a result is injected and streamText is called
\* on new arrays. Yields the outcome and the caller's messages and tools as
\* they are afterwards.
ForceSettle(args, settled) ==
    IF settled.threw
    THEN [outcome |-> Outcome(settled, <<>>), messages |-> args.messages, tools |-> args.tools]
    ELSE LET call == StreamTextArgs(args, settled.value)
         IN  [outcome |-> Outcome(Return(streamText(call)),
                                  << [fn |-> "streamText", args |-> <<call>>] >>),
              messages |-> args.messages,
              tools |-> args.tools]

----------------------------------------------------------------------------
(* Inputs *)

\* values of process.env.ZAI_API_KEY
AmbientKeys == {undefined, Some(""), Some("env-key"), Some("lazy-key")}
\* values of options.apiKey
ExplicitKeys == {undefined, Some(""), Some("override-key")}

Aliases == {CLAUDE_ALIASES[i] : i \in DOMAIN CLAUDE_ALIASES}
\* identifiers a modelMappings override maps an alias to
OverrideIds == {"glm-4.6", "glm-custom", "sonnet"}
\* identifiers a caller requests
RequestedIds ==
    {"sonnet", "opus", "haiku", "glm-4.6", "glm-4.5-air", "glm-custom", "GLM-4.6", "glm-unknown"}

\* the modelMappings objects of n entries: distinct aliases, in any order
RECURSIVE OverridesOfSize(_)
OverridesOfSize(n) ==
    IF n = 0
    THEN {<<>>}
    ELSE {Append(o, <<a, m>>) :
              o \in OverridesOfSize(n - 1), a \in Aliases, m \in OverrideIds}

ModelMappingOverrides ==
    {o \in UNION {OverridesOfSize(n) : n \in 0..MaxOverrides} :
        \A i, j \in DOMAIN o : i # j => o[i][1] # o[j][1]}

\* values of defaultSettings.env
EnvOverlays == {undefined, Some(<< <<"ANTHROPIC_DEFAULT_OPUS_MODEL", "pinned-model">> >>)}

\* the settings argument of an entry point
CallSettings == {undefined, Some([permissionMode |-> "plan"])}

\* options that vary the credential
CredentialOptions == {[EmptyOptions EXCEPT !.apiKey = k] : k \in ExplicitKeys}

\* options that vary the alias table
AliasOptions ==
    {[EmptyOptions EXCEPT
          !.apiKey = Some("unit-key"),
          !.modelMappings = m,
          !.defaultSettings = IF IsDefined(e) THEN Some([EmptySettings EXCEPT !.env = e])
                              ELSE undefined] :
        m \in {undefined} \cup {Some(o) : o \in ModelMappingOverrides},
        e \in EnvOverlays}

HttpOptions == {[EmptyHttpOptions EXCEPT !.apiKey = k] : k \in ExplicitKeys}

\* the lists a merge is given
RECURSIVE ListsOfLength(_)
ListEntries == {"", "Read", "read"}
ListsOfLength(n) ==
    IF n = 0 THEN {<<>>}
    ELSE {Append(l, e) : l \in ListsOfLength(n - 1), e \in ListEntries}
Lists == UNION {ListsOfLength(n) : n \in 0..MaxLen}
OptionalLists == {undefined} \cup {Some(l) : l \in Lists}

\* values of customToolsOnly.disallowedTools
PolicyBlocked == {undefined, Some(<<"Read">>), Some(<<"", "Bash(*)", "Read", "Read">>)}

\* values of options.customToolsOnly
PolicyInputs ==
    {NoCustomToolsOnly, CustomToolsOnlyFlag(FALSE), CustomToolsOnlyFlag(TRUE)}
        \cup {CustomToolsOnlyObject(undefined, undefined, allowed, blocked) :
                  allowed \in OptionalLists, blocked \in PolicyBlocked}

\* values of defaultSettings.allowedTools
DefaultsAllowed ==
    {undefined, Some(<<>>), Some(<<"">>), Some(<<"Read">>), Some(<<"read", "Read">>),
     Some(<<"Read", "Read", "Write">>)}

\* values of defaultSettings.disallowedTools
DefaultsDisallowed ==
    {undefined, Some(<<>>), Some(<<"">>), Some(<<"Read">>), Some(<<"Write", "", "Write">>)}

\* options that vary the tool lists
ToolOptions ==
    {[EmptyOptions EXCEPT
          !.apiKey = Some("unit-key"),
          !.customToolsOnly = policy,
          !.defaultSettings = Some([EmptySettings EXCEPT !.allowedTools = allowed,
                                                         !.disallowedTools = blocked])] :
        policy \in PolicyInputs, allowed \in DefaultsAllowed, blocked \in DefaultsDisallowed}

\* values of a boolean option: absent, false, true
OptionalFlags == {undefined, Some(FALSE), Some(TRUE)}

\* a caller's own descriptor of an auxiliary server
UserServer == [type |-> "http", url |-> "https://mcp.example/reader"]

\* values of defaultSettings.mcpServers
UserMcpServers ==
    {undefined, Some(<<>>),
     Some(<< <<"web-reader", UserServer>>, <<"custom", UserServer>> >>)}

\* values of options.visionCommand
VisionCommands ==
    {undefined,
     Some([command |-> "node", args |-> undefined, env |-> undefined]),
     Some([command |-> "uvx", args |-> Some(<<"serve">>),
           env |-> Some(<< <<"Z_AI_MODE", "CUSTOM">>, <<"EXTRA", "1">> >>)])}

\* options that vary the enable flags, the auxiliary servers and the policy
FlagOptions ==
    {[EmptyOptions EXCEPT
          !.apiKey = Some("unit-key"),
          !.includeDefaultAllowedTools = core,
          !.enableWebSearchMcp = search,
          !.enableWebReaderMcp = reader,
          !.enableVisionMcp = vision,
          !.visionCommand = command,
          !.customToolsOnly = policy,
          !.defaultSettings = Some([EmptySettings EXCEPT !.allowedTools = allowed,
                                                         !.mcpServers = servers])] :
        core \in OptionalFlags, search \in OptionalFlags, reader \in OptionalFlags,
        vision \in OptionalFlags, command \in VisionCommands,
        policy \in {NoCustomToolsOnly, CustomToolsOnlyFlag(TRUE),
                    CustomToolsOnlyObject(undefined, undefined,
                                          Some(<<"CustomTool">>), undefined)},
        allowed \in {undefined, Some(<<"CustomTool">>), Some(<<"AnotherTool", "Read">>)},
        servers \in UserMcpServers}

\* values of a system prompt and of a prompt append
Prompts == {undefined, Some(""), Some("prompt")}
Appends == {undefined, Some(""), Some(" \n"), Some("append")}

\* values of defaultSettings.permissionMode
PermissionModes == {undefined, Some("plan"), Some("")}

\* values of defaultSettings.systemPrompt and defaultSettings.appendSystemPrompt
UserPrompts == {undefined, Some("user prompt")}
UserAppends == {undefined, Some(""), Some("user append")}

\* options that vary the prompts and the permission mode
PromptOptions ==
    {[EmptyOptions EXCEPT
          !.apiKey = Some("unit-key"),
          !.customToolsOnly = policy,
          !.defaultSettings =
              IF userPrompt = undefined /\ userAppend = undefined /\ mode = undefined
              THEN undefined
              ELSE Some([EmptySettings EXCEPT !.systemPrompt = userPrompt,
                                              !.appendSystemPrompt = userAppend,
                                              !.permissionMode = mode])] :
        policy \in {NoCustomToolsOnly, CustomToolsOnlyFlag(TRUE)}
                     \cup {CustomToolsOnlyObject(prompt, append, undefined, undefined) :
                               prompt \in Prompts, append \in Appends},
        userPrompt \in UserPrompts, userAppend \in UserAppends, mode \in PermissionModes}

\* values of options.timeoutMs and of options.anthropicBaseUrl
Timeouts == {undefined, Some(42000), Some(0)}
BaseUrls == {undefined, Some("https://proxy.example/anthropic")}

\* values of defaultSettings.env
SettingsEnvOverlays ==
    EnvOverlays
        \cup {Some(<<>>), Some(<< <<"EXTRA_FLAG", "on">>, <<"API_TIMEOUT_MS", "1">> >>)}

\* options that vary the generated environment
EnvOptions ==
    {[EmptyOptions EXCEPT
          !.apiKey = key,
          !.anthropicBaseUrl = url,
          !.timeoutMs = timeout,
          !.modelMappings = m,
          !.defaultSettings = IF IsDefined(e) THEN Some([EmptySettings EXCEPT !.env = e])
                              ELSE undefined] :
        key \in {undefined, Some("unit-key")}, url \in BaseUrls, timeout \in Timeouts,
        m \in {undefined} \cup {Some(o) : o \in ModelMappingOverrides},
        e \in SettingsEnvOverlays}

\* the options of the settings assembly
SettingsOptions == ToolOptions \cup FlagOptions \cup PromptOptions \cup EnvOptions

\* a tool of a tool map: its execute is absent, a function or another value
Tool(execute) == [description |-> "Echo text", execute |-> execute]

\* values of the argument tools
ToolMaps ==
    {<<>>,
     << <<"echo_tool", Tool(Some("function"))>> >>,
     << <<"plain_tool", Tool(undefined)>>, <<"echo_tool", Tool(Some("function"))>> >>,
     << <<"echo_tool", Tool(Some("string"))>>, <<"other_tool", Tool(Some("function"))>> >>}

\* values of the argument toolName
ToolNames == {"echo_tool", "plain_tool", "missing"}

\* values of the argument messages
MessageLists ==
    {<<>>,
     << [role |-> "user", content |-> "run tool"] >>,
     << [role |-> "system", content |-> "be concise"],
        [role |-> "user", content |-> "run tool"] >>}

\* values of the arguments acknowledgement and systemPrompt
Acknowledgements == {undefined, Some(""), Some("ack")}
ForcePrompts == {undefined, Some(""), Some("guard")}

\* the arguments of forceCustomTools
ForceArgs ==
    [model : {"model"}, tools : ToolMaps, toolName : ToolNames,
     toolInput : {[text |-> "custom_check"]}, messages : MessageLists,
     acknowledgement : Acknowledgements, systemPrompt : ForcePrompts]

\* what a tool's execute does: it returns a value or undefined, or it throws
\* or rejects
ExecuteOutcomes == {Return(Some("echoed")), Return(undefined), Throw("tool failed")}

\* values of the arguments of mergeSystemPromptAppend
AppendParts ==
    {undefined, Some(""), Some(" \n"), Some("a"), Some("b"), Some(" a "),
     Some("\n\nb"), Some("a\n\n")}

----------------------------------------------------------------------------
(* The state machine *)

Operation(op, args, outcome) ==
    [op |-> op, args |-> args,
     threw |-> outcome.threw, error |-> outcome.error, value |-> outcome.value]

NoOperation == Operation("none", <<>>, Return(undefined))

\* the process before the module is imported
Init ==
    /\ module = "unloaded"
    /\ env \in {EnvWithKey(k) : k \in AmbientKeys}
    /\ inner = undefined
    /\ zaiAnthropic = undefined
    /\ provider = undefined
    /\ httpProvider = undefined
    /\ frame = undefined
    /\ input = undefined
    /\ last = NoOperation
    /\ trace = <<>>

\* the module body: zaiClaudeCode = createLazyDefaultProvider() and
\* zaiAnthropic = createZaiAnthropic()
LoadModule ==
    /\ module = "unloaded"
    /\ LET made == createZaiAnthropic(EmptyHttpOptions, env)
       IN  /\ module' = IF made.threw THEN "failed" ELSE "loaded"
           /\ zaiAnthropic' = IF made.threw THEN undefined ELSE Some(made.value)
           /\ last' = Operation("load", [environment |-> env], made)
           /\ trace' = made.calls
    /\ inner' = undefined
    /\ UNCHANGED <<env, provider, httpProvider, input, frame>>

\* process.env.ZAI_API_KEY = key, or delete process.env.ZAI_API_KEY
SetEnv ==
    /\ \E key \in AmbientKeys :
          /\ key # env.ZAI_API_KEY
          /\ env' = [env EXCEPT !.ZAI_API_KEY = key]
          /\ last' = Operation("setEnv", [key |-> key], Return(undefined))
    /\ trace' = <<>>
    /\ UNCHANGED <<module, inner, zaiAnthropic, provider, httpProvider, input, frame>>

CreateZaiClaudeCode(optionSet) ==
    /\ module = "loaded"
    /\ \E options \in optionSet :
          LET made == createZaiClaudeCode(options, env.ZAI_API_KEY)
          IN  /\ provider' = IF made.threw THEN provider ELSE Some(made.value)
              /\ last' = Operation("createZaiClaudeCode",
                                   [options |-> options, environment |-> env], made)
              /\ trace' = made.calls
    /\ UNCHANGED <<module, env, inner, zaiAnthropic, httpProvider, input, frame>>

CreateZaiAnthropic(optionSet) ==
    /\ module = "loaded"
    /\ \E options \in optionSet :
          LET made == createZaiAnthropic(options, env)
          IN  /\ httpProvider' = IF made.threw THEN httpProvider ELSE Some(made.value)
              /\ last' = Operation("createZaiAnthropic",
                                   [options |-> options, environment |-> env], made)
              /\ trace' = made.calls
    /\ UNCHANGED <<module, env, inner, zaiAnthropic, provider, input, frame>>

\* a call of the provider createZaiAnthropic returned
CallHttpProvider(idSet) ==
    /\ module = "loaded"
    /\ IsDefined(httpProvider)
    /\ \E modelId \in idSet :
          LET called == HttpProviderCall(Val(httpProvider), modelId)
          IN  /\ last' = Operation("httpProvider", [modelId |-> modelId], called)
              /\ trace' = called.calls
    /\ UNCHANGED <<module, env, inner, zaiAnthropic, provider, httpProvider, input, frame>>

\* a call of the default provider zaiAnthropic
CallZaiAnthropic(idSet) ==
    /\ module = "loaded"
    /\ \E modelId \in idSet :
          LET called == HttpProviderCall(Val(zaiAnthropic), modelId)
          IN  /\ last' = Operation("zaiAnthropic", [modelId |-> modelId], called)
              /\ trace' = called.calls
    /\ UNCHANGED <<module, env, inner, zaiAnthropic, provider, httpProvider, input, frame>>

\* an entry point of the provider createZaiClaudeCode returned
CallProvider(entrySet, idSet, settingsSet) ==
    /\ module = "loaded"
    /\ IsDefined(provider)
    /\ \E entry \in entrySet, modelId \in idSet, settings \in settingsSet :
          LET called == WrappedProviderCall(Val(provider), entry, modelId, settings)
          IN  /\ last' = Operation("provider",
                                   [entry |-> entry, modelId |-> modelId,
                                    settings |-> settings], called)
              /\ trace' = called.calls
    /\ UNCHANGED <<module, env, inner, zaiAnthropic, provider, httpProvider, input, frame>>

\* an entry point of the default provider zaiClaudeCode
CallZaiClaudeCode(entrySet, idSet, settingsSet) ==
    /\ module = "loaded"
    /\ \E entry \in entrySet, modelId \in idSet, settings \in settingsSet :
          LET called == LazyProviderCall(inner, env.ZAI_API_KEY, entry, modelId, settings)
          IN  /\ inner' = called.inner
              /\ last' = Operation("zaiClaudeCode",
                                   [entry |-> entry, modelId |-> modelId,
                                    settings |-> settings, environment |-> env],
                                   called.outcome)
              /\ trace' = called.outcome.calls
    /\ UNCHANGED <<module, env, zaiAnthropic, provider, httpProvider, input, frame>>

LifecycleIds == {"glm-4.6", "glm-unknown"}
HttpLifecycleIds == {"glm-4.6", "claude-3-haiku"}

Next ==
    \/ LoadModule
    \/ SetEnv
    \/ CreateZaiClaudeCode(CredentialOptions)
    \/ CreateZaiAnthropic(HttpOptions)
    \/ CallProvider(Entries, LifecycleIds, {undefined})
    \/ CallZaiClaudeCode(Entries, LifecycleIds, {undefined})
    \/ CallHttpProvider(HttpLifecycleIds)
    \/ CallZaiAnthropic(HttpLifecycleIds)

Spec == Init /\ [][Next]_vars

----------------------------------------------------------------------------
(* Alias resolution: a caller in a loaded module holds the options of one     *)
(* provider and the arguments of one request                                   *)

InitAlias ==
    /\ module = "loaded"
    /\ env = EnvWithKey(Some("env-key"))
    /\ inner = undefined
    /\ zaiAnthropic = Some(createZaiAnthropic(EmptyHttpOptions, env).value)
    /\ provider = undefined
    /\ httpProvider = undefined
    /\ frame = undefined
    /\ \E options \in AliasOptions, entry \in Entries,
          modelId \in RequestedIds, settings \in CallSettings :
          input = [options |-> options, entry |-> entry,
                   modelId |-> modelId, settings |-> settings]
    /\ last = NoOperation
    /\ trace = <<>>

NextAlias ==
    \/ CreateZaiClaudeCode({input.options})
    \/ CallProvider({input.entry}, {input.modelId}, {input.settings})
    \/ CallZaiClaudeCode({input.entry}, {input.modelId}, {input.settings})

SpecAlias == InitAlias /\ [][NextAlias]_vars

----------------------------------------------------------------------------
(* Settings assembly: a caller in a loaded module holds the options of one   *)
(* provider                                                                  *)

InitSettings ==
    /\ module = "loaded"
    /\ env = EnvWithKey(Some("env-key"))
    /\ inner = undefined
    /\ zaiAnthropic = Some(createZaiAnthropic(EmptyHttpOptions, env).value)
    /\ provider = undefined
    /\ httpProvider = undefined
    /\ frame = undefined
    /\ \E options \in SettingsOptions : input = [options |-> options]
    /\ last = NoOperation
    /\ trace = <<>>

NextSettings == CreateZaiClaudeCode({input.options})

SpecSettings == InitSettings /\ [][NextSettings]_vars

----------------------------------------------------------------------------
(* HTTP model resolution: a caller in a loaded module holds the options of   *)
(* one HTTP provider and one requested identifier                            *)

\* values of options.glmFallbackModel
GlmFallbacks ==
    {undefined, Some(FallbackFalse), Some(FallbackString("")),
     Some(FallbackString("custom-http-model"))}

\* options that vary the fallback model
HttpModelOptions ==
    {[EmptyHttpOptions EXCEPT !.apiKey = k, !.glmFallbackModel = f] :
        k \in {undefined, Some("unit-key")}, f \in GlmFallbacks}

\* identifiers requested of an HTTP provider
HttpRequestedIds ==
    {"glm-4.6", "GLM-4.5", "Glm-air", "glm", "xglm-4.6", "claude-3-haiku", "sonnet", ""}

\* values of process.env with ZAI_HTTP_FALLBACK_MODEL and ZAI_HTTP_MODEL set or not
HttpEnvironments ==
    {[ZAI_API_KEY |-> Some("env-key"), ZAI_HTTP_FALLBACK_MODEL |-> f, ZAI_HTTP_MODEL |-> m] :
        f \in {undefined, Some(""), Some("env-fallback-model")},
        m \in {undefined, Some(""), Some("env-model")}}

InitHttp ==
    /\ module = "loaded"
    /\ env \in HttpEnvironments
    /\ inner = undefined
    /\ zaiAnthropic = Some(createZaiAnthropic(EmptyHttpOptions, env).value)
    /\ provider = undefined
    /\ httpProvider = undefined
    /\ frame = undefined
    /\ \E options \in HttpModelOptions, modelId \in HttpRequestedIds :
          input = [options |-> options, modelId |-> modelId]
    /\ last = NoOperation
    /\ trace = <<>>

NextHttp ==
    \/ CreateZaiAnthropic({input.options})
    \/ CallHttpProvider({input.modelId})
    \/ CallZaiAnthropic({input.modelId})

SpecHttp == InitHttp /\ [][NextHttp]_vars

----------------------------------------------------------------------------
(* The merges as functions of their two lists *)

InitMerge ==
    /\ module = "loaded"
    /\ env = EnvWithKey(Some("env-key"))
    /\ inner = undefined
    /\ zaiAnthropic = Some(createZaiAnthropic(EmptyHttpOptions, env).value)
    /\ provider = undefined
    /\ httpProvider = undefined
    /\ frame = undefined
    /\ \E defaults \in Lists, user \in OptionalLists :
          input = [defaults |-> defaults, user |-> user]
    /\ last = NoOperation
    /\ trace = <<>>

MergeAllowedTools ==
    /\ last' = Operation("mergeAllowedTools", input,
                         Return(mergeAllowedTools(input.defaults, input.user)))
    /\ trace' = <<>>
    /\ UNCHANGED <<module, env, inner, zaiAnthropic, provider, httpProvider, input, frame>>

MergeStringLists ==
    /\ last' = Operation("mergeStringLists", input,
                         Return(mergeStringLists(input.defaults, input.user)))
    /\ trace' = <<>>
    /\ UNCHANGED <<module, env, inner, zaiAnthropic, provider, httpProvider, input, frame>>

NextMerge == MergeAllowedTools \/ MergeStringLists

SpecMerge == InitMerge /\ [][NextMerge]_vars

----------------------------------------------------------------------------
(* forceCustomTools: a caller in a loaded module holds the arguments of one  *)
(* forced invocation; the function runs up to its await and resumes when the *)
(* tool's execute has settled                                                *)

InitForce ==
    /\ module = "loaded"
    /\ env = EnvWithKey(Some("env-key"))
    /\ inner = undefined
    /\ zaiAnthropic = Some(createZaiAnthropic(EmptyHttpOptions, env).value)
    /\ provider = undefined
    /\ httpProvider = undefined
    /\ frame = undefined
    /\ input \in ForceArgs
    /\ last = NoOperation
    /\ trace = <<>>

\* a call of forceCustomTools, up to the rejection for a missing tool or to
\* the await of execute
ForceCustomTools ==
    /\ module = "loaded"
    /\ frame = undefined
    /\ LET begun == ForceBegin(input)
       IN  /\ frame' = IF begun.threw THEN undefined ELSE Some(input)
           /\ last' = Operation(IF begun.threw THEN "forceCustomTools" ELSE "execute",
                                [call |-> input, settled |-> undefined], begun)
           /\ trace' = begun.calls
    /\ UNCHANGED <<module, env, inner, zaiAnthropic, provider, httpProvider, input>>

\* execute settles and the suspended call of forceCustomTools runs to its end
ExecuteSettles(outcomes) ==
    /\ IsDefined(frame)
    /\ \E settled \in outcomes :
          LET done == ForceSettle(Val(frame), settled)
          IN  /\ last' = Operation("forceCustomTools",
                                   [call |-> Val(frame), settled |-> Some(settled)],
                                   done.outcome)
              /\ trace' = trace \o done.outcome.calls
              /\ input' = [input EXCEPT !.messages = done.messages, !.tools = done.tools]
    /\ frame' = undefined
    /\ UNCHANGED <<module, env, inner, zaiAnthropic, provider, httpProvider>>

NextForce == ForceCustomTools \/ ExecuteSettles(ExecuteOutcomes)

SpecForce == InitForce /\ [][NextForce]_vars

----------------------------------------------------------------------------
(* mergeSystemPromptAppend as a function of its two parts *)

InitAppend ==
    /\ module = "loaded"
    /\ env = EnvWithKey(Some("env-key"))
    /\ inner = undefined
    /\ zaiAnthropic = Some(createZaiAnthropic(EmptyHttpOptions, env).value)
    /\ provider = undefined
    /\ httpProvider = undefined
    /\ frame = undefined
    /\ \E a \in AppendParts, b \in AppendParts :
          input = [customAppend |-> a, userAppend |-> b]
    /\ last = NoOperation
    /\ trace = <<>>

MergeSystemPromptAppend ==
    /\ last' = Operation("mergeSystemPromptAppend", input,
                         Return(mergeSystemPromptAppend(input.customAppend,
                                                        input.userAppend)))
    /\ trace' = <<>>
    /\ UNCHANGED <<module, env, inner, zaiAnthropic, provider, httpProvider, input, frame>>

NextAppend == MergeSystemPromptAppend

SpecAppend == InitAppend /\ [][NextAppend]_vars

----------------------------------------------------------------------------
(* Properties *)

\* s contains sub
Contains(s, sub) ==
    \E i \in 1..(Len(s) + 1) :
        i + Len(sub) - 1 <= Len(s) /\ SubSeq(s, i, i + Len(sub) - 1) = sub

\* the calls of the base provider's entry points among the external calls
BaseCalls == SelectSeq(trace, LAMBDA call : call.fn \in Entries)

\* the key a provider made by createZaiClaudeCode or createZaiAnthropic carries
CarriedKey(op, made) ==
    IF op = "createZaiClaudeCode"
    THEN Val(ObjGet(made.base.defaultSettings.env, "ANTHROPIC_AUTH_TOKEN"))
    ELSE made.apiKey

\* the key the contract of resolveCredentials names
ContractKey(explicitKey, ambientKey) ==
    IF IsDefined(explicitKey) /\ Val(explicitKey) # "" THEN explicitKey ELSE ambientKey

(* C1: in createZaiClaudeCode and in createZaiAnthropic the resolved key is  *)
(* the explicit key when that is present and non-empty, and otherwise the    *)
(* ambient key: whenever that key is non-empty the call succeeds and the     *)
(* provider carries it.                                                      *)
C1_ExplicitNonEmptyElseAmbient ==
    last.op \in {"createZaiClaudeCode", "createZaiAnthropic"} =>
        LET expected == ContractKey(last.args.options.apiKey,
                                    last.args.environment.ZAI_API_KEY)
        IN  /\ ~FalsyString(expected) => ~last.threw
            /\ ~last.threw => CarriedKey(last.op, last.value) = Val(expected)

(* C2: with neither an explicit nor an ambient key, createZaiClaudeCode       *)
(* throws the missing-credential error, returns no provider and has made no  *)
(* external call (createClaudeCode is not reached).                          *)
C2_MissingKeyFailsBeforeFactory ==
    ( /\ last.op = "createZaiClaudeCode"
      /\ ~IsDefined(last.args.options.apiKey)
      /\ ~IsDefined(last.args.environment.ZAI_API_KEY) )
    => /\ last.threw
       /\ last.error = MISSING_KEY_MESSAGE
       /\ last.value = undefined
       /\ trace = <<>>

C2_Witness ==
    /\ last.op = "createZaiClaudeCode"
    /\ ~IsDefined(last.args.options.apiKey)
    /\ ~IsDefined(last.args.environment.ZAI_API_KEY)
    /\ last.threw
    /\ trace = <<>>

----------------------------------------------------------------------------
(* Alias resolution *)

\* the operations that call an entry point of a provider
CallOps == {"provider", "zaiClaudeCode"}

\* the alias table behind the latest call
CalledTable == IF last.op = "provider" THEN Val(provider).mappings ELSE Val(inner).mappings

\* a call of an entry point that resolves its identifier, past construction
ResolvingCall ==
    /\ last.op \in CallOps
    /\ last.args.entry \in ResolvingEntries
    /\ last.op = "zaiClaudeCode" => IsDefined(inner)

\* the identifier table maps alias to
MappedTo(table, alias) == Val(ObjGet(table, alias))

\* the positions, in the order sonnet, opus, haiku, of the aliases table maps to id
Hits(table, id) ==
    {i \in DOMAIN CLAUDE_ALIASES : MappedTo(table, CLAUDE_ALIASES[i]) = id}

\* the first alias, in the order sonnet, opus, haiku, that table maps to id
FirstAliasFor(table, id) ==
    CLAUDE_ALIASES[CHOOSE i \in Hits(table, id) : \A j \in Hits(table, id) : i <= j]

\* the entries of the modelMappings override the caller supplied
SuppliedOverrides == OrElse(input.options.modelMappings, <<>>)

(* C3: a requested identifier that is one of sonnet, opus, haiku resolves to *)
(* itself under every alias table, also when it is the mapped identifier of  *)
(* another alias.                                                            *)
C3_AliasIdentity ==
    (ResolvingCall /\ last.args.modelId \in Aliases)
    => /\ ~last.threw
       /\ last.value.modelId = last.args.modelId

C3_Witness ==
    /\ last.op = "provider"
    /\ last.args.entry = "languageModel"
    /\ last.args.modelId = "sonnet"
    /\ MappedTo(Val(provider).mappings, "opus") = "sonnet"
    /\ ~last.threw
    /\ last.value.modelId = "sonnet"

(* C4: a requested identifier that is no alias name resolves to the first    *)
(* alias, in the fixed order sonnet, opus, haiku, whose mapped identifier    *)
(* equals it exactly; an override changes the value an alias maps to and     *)
(* never its position; with the built-in table glm-4.6 resolves to sonnet    *)
(* and glm-4.5-air to haiku.                                                 *)
C4_ReverseResolutionOrder ==
    (ResolvingCall /\ last.args.modelId \notin Aliases)
    => LET table == CalledTable
           id == last.args.modelId
       IN  /\ [i \in DOMAIN table |-> table[i][1]] = CLAUDE_ALIASES
           /\ Hits(table, id) # {} =>
                  /\ ~last.threw
                  /\ last.value.modelId = FirstAliasFor(table, id)
           /\ (table = DEFAULT_MODEL_MAPPINGS /\ id = "glm-4.6") =>
                  (~last.threw /\ last.value.modelId = "sonnet")
           /\ (table = DEFAULT_MODEL_MAPPINGS /\ id = "glm-4.5-air") =>
                  (~last.threw /\ last.value.modelId = "haiku")

C4_Witness ==
    /\ last.op = "provider"
    /\ last.args.entry = "call"
    /\ last.args.modelId = "glm-4.6"
    /\ SuppliedOverrides = << <<"sonnet", "glm-4.6">> >>
    /\ MappedTo(Val(provider).mappings, "opus") = "glm-4.6"
    /\ ~last.threw
    /\ last.value.modelId = "sonnet"

(* C5 as stated: for every alias a with mapped identifier m, a request for m *)
(* resolves to the first alias in table order that maps to m, and a request  *)
(* for an alias resolves to that alias.                                      *)
C5_LeftInverseOfTable ==
    ResolvingCall
    => LET table == CalledTable
           id == last.args.modelId
       IN  /\ id \in Aliases => (~last.threw /\ last.value.modelId = id)
           /\ \A a \in Aliases :
                  MappedTo(table, a) = id =>
                      (~last.threw /\ last.value.modelId = FirstAliasFor(table, id))

(* C5 amended: for every alias a whose mapped identifier m is not itself an  *)
(* alias name, a request for m resolves to the first alias in table order    *)
(* that maps to m; a request for an alias name resolves to that name, also   *)
(* when the name is the mapped identifier of another alias.                  *)
C5_LeftInverseOffAliasNames ==
    ResolvingCall
    => LET table == CalledTable
           id == last.args.modelId
       IN  \A a \in Aliases :
               /\ (MappedTo(table, a) = id /\ id \notin Aliases) =>
                      (~last.threw /\ last.value.modelId = FirstAliasFor(table, id))
               /\ id = a => (~last.threw /\ last.value.modelId = a)

C5_Witness ==
    /\ last.op = "provider"
    /\ last.args.entry = "chat"
    /\ last.args.modelId = "glm-custom"
    /\ MappedTo(Val(provider).mappings, "haiku") = "glm-custom"
    /\ MappedTo(Val(provider).mappings, "sonnet") # "glm-custom"
    /\ ~last.threw
    /\ last.value.modelId = "haiku"

(* C6: a requested identifier that is neither an alias name nor the mapped   *)
(* identifier of an alias makes the direct call, languageModel and chat fail *)
(* with the unsupported-model error, whose message names the identifier and  *)
(* lists sonnet, opus, haiku, and the base provider is not called; the error *)
(* is raised for no alias name and for no mapped identifier.                 *)
C6_UnsupportedModel ==
    ResolvingCall
    => LET table == CalledTable
           id == last.args.modelId
           known == id \in Aliases \/ \E a \in Aliases : MappedTo(table, a) = id
       IN  /\ ~known =>
                  /\ last.threw
                  /\ Contains(last.error, "Unsupported model \"" \o id \o "\"")
                  /\ Contains(last.error, "sonnet, opus, haiku")
                  /\ BaseCalls = <<>>
           /\ known => ~last.threw

C6_Witness ==
    /\ last.op = "provider"
    /\ last.args.entry = "chat"
    /\ last.args.modelId = "GLM-4.6"
    /\ MappedTo(Val(provider).mappings, "sonnet") = "glm-4.6"
    /\ last.threw
    /\ BaseCalls = <<>>

\* the name of the environment entry that carries an alias's identifier
AliasEnvName(alias) ==
    CASE alias = "sonnet" -> "ANTHROPIC_DEFAULT_SONNET_MODEL"
      [] alias = "opus"   -> "ANTHROPIC_DEFAULT_OPUS_MODEL"
      [] alias = "haiku"  -> "ANTHROPIC_DEFAULT_HAIKU_MODEL"

\* defaultSettings.env of the options the caller supplied
SuppliedEnv ==
    IF IsDefined(input.options.defaultSettings)
    THEN OrElse(Val(input.options.defaultSettings).env, <<>>)
    ELSE <<>>

C8_BaseProviderGetsResolvedId ==
    (last.op \in CallOps /\ last.args.entry \in ResolvingEntries)
    => /\ Len(BaseCalls) <= 1
       /\ ~last.threw => Len(BaseCalls) = 1
       /\ \A i \in DOMAIN BaseCalls :
              /\ BaseCalls[i].fn = last.args.entry
              /\ BaseCalls[i].args[1] \in Aliases
              /\ last.args.modelId \notin Aliases =>
                     BaseCalls[i].args[1] # last.args.modelId
              /\ BaseCalls[i].args[2] = last.args.settings

C8_Witness ==
    /\ last.op = "zaiClaudeCode"
    /\ last.args.entry = "chat"
    /\ last.args.modelId = "glm-4.5-air"
    /\ IsDefined(last.args.settings)
    /\ BaseCalls = << [fn |-> "chat", args |-> <<"haiku", last.args.settings>>] >>

----------------------------------------------------------------------------
(* List merging *)

MergeOps == {"mergeAllowedTools", "mergeStringLists"}

\* the positions of the user list whose entry a merge appends: the entry is
\* non-empty, is not in defaults and is at no earlier position of the user list
AppendedPositions(defaults, user) ==
    {i \in DOMAIN user :
        /\ user[i] # ""
        /\ ~Includes(defaults, user[i])
        /\ \A j \in 1..(i - 1) : user[j] # user[i]}

(* C9: a merge returns the default list's entries in their order, followed   *)
(* by each entry of the user list that is non-empty and not yet in the       *)
(* result, in the user list's order; it returns undefined, never an empty    *)
(* list, when that would be no entry; a non-empty default list merged with   *)
(* an empty or absent user list is returned as it is.                        *)
C9_MergeResult ==
    last.op \in MergeOps
    => LET defaults == last.args.defaults
           user == OrElse(last.args.user, <<>>)
           appended == AppendedPositions(defaults, user)
           rank(i) == Cardinality({j \in appended : j <= i})
       IN  /\ (Len(defaults) + Cardinality(appended) = 0) <=> last.value = undefined
           /\ last.value # <<<<>>>>
           /\ IsDefined(last.value) =>
                  /\ Len(Val(last.value)) = Len(defaults) + Cardinality(appended)
                  /\ SubSeq(Val(last.value), 1, Len(defaults)) = defaults
                  /\ \A i \in appended :
                         Val(last.value)[Len(defaults) + rank(i)] = user[i]
           /\ (Len(defaults) > 0 /\ Len(user) = 0) => last.value = Some(defaults)

C9_Witness ==
    /\ last.op = "mergeStringLists"
    /\ last.args.defaults = <<"Read">>
    /\ last.args.user = Some(<<"", "Read", "read">>)
    /\ last.value = Some(<<"Read", "read">>)

\* the default list createZaiClaudeCode hands to the merge of the allowlist
AllowlistDefaults(options) ==
    IF options.customToolsOnly.kind = "object"
        \/ (options.customToolsOnly.kind = "boolean" /\ options.customToolsOnly.bool)
    THEN OrElse(options.customToolsOnly.allowedTools, <<>>)
    ELSE (IF OrElse(options.includeDefaultAllowedTools, TRUE) THEN CORE_ALLOWED_TOOLS ELSE <<>>)
         \o (IF OrElse(options.enableWebSearchMcp, TRUE) THEN WEB_SEARCH_ALLOWED_TOOLS ELSE <<>>)
         \o (IF OrElse(options.enableWebReaderMcp, TRUE) THEN WEB_READER_ALLOWED_TOOLS ELSE <<>>)
         \o (IF OrElse(options.enableVisionMcp, TRUE) THEN VISION_ALLOWED_TOOLS ELSE <<>>)

(* C10: for all default and user lists, a default list with repeated or      *)
(* empty entries included (as a caller-supplied customToolsOnly.allowedTools *)
(* can be), every element of the merged result is an element of one of the   *)
(* two lists, no element appears twice in the result, and the elements of    *)
(* the default list precede those only in the user list: stated of the       *)
(* allowlist createZaiClaudeCode merges.                                     *)
C10_MergedIsDuplicateFree ==
    (last.op = "createZaiClaudeCode" /\ ~last.threw
        /\ IsDefined(last.value.base.defaultSettings.allowedTools))
    => LET defaults == AllowlistDefaults(last.args.options)
           user == OrElse(OrElse(last.args.options.defaultSettings, EmptySettings).allowedTools,
                          <<>>)
           merged == Val(last.value.base.defaultSettings.allowedTools)
       IN  /\ \A i \in DOMAIN merged : Includes(defaults, merged[i]) \/ Includes(user, merged[i])
           /\ \A i, j \in DOMAIN merged : i # j => merged[i] # merged[j]
           /\ \A i, j \in DOMAIN merged :
                  (Includes(defaults, merged[i]) /\ ~Includes(defaults, merged[j])) => i < j

----------------------------------------------------------------------------
(* Settings assembly *)

\* a call of createZaiClaudeCode that returned a provider
SettingsCall == last.op = "createZaiClaudeCode" /\ ~last.threw

\* the settings the latest call handed to createClaudeCode
Resolved == last.value.base.defaultSettings

\* defaultSettings of the options of the latest call
SuppliedDefaults == OrElse(last.args.options.defaultSettings, EmptySettings)

\* the policy of the latest call, and whether it is active
SuppliedPolicy == last.args.options.customToolsOnly
PolicyActive ==
    SuppliedPolicy.kind = "object" \/ (SuppliedPolicy.kind = "boolean" /\ SuppliedPolicy.bool)

\* the entries of list at the positions in A, in the order of list
SubsequenceAt(list, A) ==
    [k \in 1..Cardinality(A) |->
        list[CHOOSE i \in A : Cardinality({j \in A : j <= i}) = k]]

\* the merge of two lists as the contract of the merge states it
ExpectedMerge(defaults, user) ==
    defaults \o SubsequenceAt(user, AppendedPositions(defaults, user))

\* list without the later occurrences of a repeated entry
Deduplicated(list) ==
    SubsequenceAt(list, {i \in DOMAIN list : \A j \in 1..(i - 1) : list[j] # list[i]})

\* a list as a merge returns it: absent when it has no entry
NonEmptyOrAbsent(list) == IF Len(list) > 0 THEN Some(list) ELSE undefined

IsNonEmptyList(o) == IsDefined(o) /\ Len(Val(o)) > 0

(* C11 as stated: in every settings record createZaiClaudeCode produces, with *)
(* the policy active or inactive, a non-empty allowedTools comes with an     *)
(* absent disallowedTools.                                                   *)
C11_AllowlistExcludesBlocklist ==
    SettingsCall =>
        (IsNonEmptyList(Resolved.allowedTools) => ~IsDefined(Resolved.disallowedTools))

(* C11 amended: with the policy active, a non-empty allowedTools comes with  *)
(* an absent disallowedTools; with the policy inactive disallowedTools is    *)
(* attached whatever the allowlist is, exactly when                          *)
(* defaultSettings.disallowedTools has a non-empty entry.                    *)
C11_ActivePolicyExcludesBlocklist ==
    SettingsCall =>
        /\ (PolicyActive /\ IsNonEmptyList(Resolved.allowedTools)) =>
               ~IsDefined(Resolved.disallowedTools)
        /\ ~PolicyActive =>
               (IsDefined(Resolved.disallowedTools)
                    <=> \E i \in DOMAIN OrElse(SuppliedDefaults.disallowedTools, <<>>) :
                            Val(SuppliedDefaults.disallowedTools)[i] # "")

C11_Witness ==
    /\ SettingsCall
    /\ SuppliedPolicy.kind = "object"
    /\ SuppliedPolicy.allowedTools = Some(<<"Read">>)
    /\ SuppliedDefaults.disallowedTools = Some(<<"Read">>)
    /\ Resolved.allowedTools = Some(<<"Read">>)
    /\ Resolved.disallowedTools = undefined

\* the always-blocked pair and the policy's extra blocked names
AlwaysBlocked == <<"Bash(*)", "Task(*)">>
PolicyExtras == OrElse(SuppliedPolicy.disallowedTools, <<>>)

(* C12 as stated: with the policy active, disallowedTools is attached if and *)
(* only if the resolved allowlist is empty, and when attached it is the      *)
(* always-blocked pair merged with the policy's extra blocked names, each    *)
(* once, and nothing else.                                                   *)
C12_BlocklistIsPairPlusExtras ==
    (SettingsCall /\ PolicyActive) =>
        /\ IsDefined(Resolved.disallowedTools) <=> ~IsNonEmptyList(Resolved.allowedTools)
        /\ IsDefined(Resolved.disallowedTools) =>
               Val(Resolved.disallowedTools) = ExpectedMerge(AlwaysBlocked, PolicyExtras)

(* C12 amended: with the policy active, disallowedTools is attached if and   *)
(* only if the resolved allowlist is empty, and when attached it is the      *)
(* always-blocked pair, followed by the policy's non-empty extra blocked     *)
(* names not yet in it, followed by the non-empty names of                   *)
(* defaultSettings.disallowedTools not yet in it, each once.                 *)
C12_BlocklistIsPairExtrasDefaults ==
    (SettingsCall /\ PolicyActive) =>
        /\ IsDefined(Resolved.disallowedTools) <=> ~IsNonEmptyList(Resolved.allowedTools)
        /\ IsDefined(Resolved.disallowedTools) =>
               Val(Resolved.disallowedTools)
                   = ExpectedMerge(ExpectedMerge(AlwaysBlocked, PolicyExtras),
                                   OrElse(SuppliedDefaults.disallowedTools, <<>>))

C12_Witness ==
    /\ SettingsCall
    /\ SuppliedPolicy.kind = "object"
    /\ SuppliedPolicy.allowedTools = Some(<<>>)
    /\ SuppliedPolicy.disallowedTools = Some(<<"Read">>)
    /\ SuppliedDefaults.allowedTools = Some(<<>>)
    /\ SuppliedDefaults.disallowedTools = undefined
    /\ Resolved.allowedTools = undefined
    /\ Resolved.disallowedTools = Some(<<"Bash(*)", "Task(*)", "Read">>)

(* C13: with the policy active the resolved allowlist is the merge of the    *)
(* policy's allowedTools (first) with defaultSettings.allowedTools, whatever *)
(* includeDefaultAllowedTools and the enable flags are; a built-in tool name *)
(* is in it only when the caller listed it.                                  *)
C13_PolicyAllowlist ==
    (SettingsCall /\ PolicyActive) =>
        LET policyList == OrElse(SuppliedPolicy.allowedTools, <<>>)
            userList == OrElse(SuppliedDefaults.allowedTools, <<>>)
            merged == OrElse(Resolved.allowedTools, <<>>)
        IN  /\ Resolved.allowedTools
                   = NonEmptyOrAbsent(ExpectedMerge(policyList, userList))
            /\ \A i \in DOMAIN merged :
                   Includes(policyList, merged[i]) \/ Includes(userList, merged[i])

C13_Witness ==
    /\ SettingsCall
    /\ SuppliedPolicy.allowedTools = Some(<<"CustomTool">>)
    /\ SuppliedDefaults.allowedTools = Some(<<"AnotherTool", "Read">>)
    /\ last.args.options.includeDefaultAllowedTools = Some(TRUE)
    /\ last.args.options.enableVisionMcp = Some(TRUE)
    /\ Resolved.allowedTools = Some(<<"CustomTool", "AnotherTool", "Read">>)
    /\ Resolved.disallowedTools = undefined

\* the keys of the mapping of auxiliary servers the latest call resolved
ResolvedServerKeys == ObjKeys(OrElse(Resolved.mcpServers, <<>>))

(* C14: with the policy active no built-in descriptor of an auxiliary server *)
(* is generated, whatever the enable flags are: the resolved mcpServers is   *)
(* absent when the caller supplied no mcpServers, and is the caller's        *)
(* mapping otherwise.                                                        *)
C14_PolicySuppressesServers ==
    (SettingsCall /\ PolicyActive) =>
        /\ ~IsDefined(SuppliedDefaults.mcpServers) => Resolved.mcpServers = undefined
        /\ IsDefined(SuppliedDefaults.mcpServers) =>
               Resolved.mcpServers = SuppliedDefaults.mcpServers
        /\ \A k \in {"web-search-prime", "web-reader", "zai-vision"} :
               k \in ResolvedServerKeys =>
                   ObjGet(Val(Resolved.mcpServers), k)
                       = ObjGet(OrElse(SuppliedDefaults.mcpServers, <<>>), k)

C14_Witness ==
    /\ SettingsCall
    /\ SuppliedPolicy = CustomToolsOnlyFlag(TRUE)
    /\ last.args.options.enableWebSearchMcp = Some(TRUE)
    /\ last.args.options.enableWebReaderMcp = Some(TRUE)
    /\ last.args.options.enableVisionMcp = Some(TRUE)
    /\ SuppliedDefaults.mcpServers = undefined
    /\ Resolved.mcpServers = undefined

(* C15 as stated: with the policy active the resolved systemPrompt is the    *)
(* policy's, else defaultSettings', else the guardrail text, and is never    *)
(* absent; the resolved appendSystemPrompt is the policy's when the policy   *)
(* supplies one (a text that is not blank) and defaultSettings' when it      *)
(* supplies none.                                                            *)
C15_PromptsFollowPolicyFirst ==
    (SettingsCall /\ PolicyActive) =>
        /\ IsDefined(Resolved.systemPrompt)
        /\ Resolved.systemPrompt
               = IF IsDefined(SuppliedPolicy.systemPrompt) THEN SuppliedPolicy.systemPrompt
                 ELSE IF IsDefined(SuppliedDefaults.systemPrompt)
                      THEN SuppliedDefaults.systemPrompt
                      ELSE Some(DEFAULT_CUSTOM_TOOLS_SYSTEM_PROMPT)
        /\ Resolved.appendSystemPrompt
               = IF ~IsBlank(SuppliedPolicy.appendSystemPrompt)
                 THEN SuppliedPolicy.appendSystemPrompt
                 ELSE IF ~IsBlank(SuppliedDefaults.appendSystemPrompt)
                      THEN SuppliedDefaults.appendSystemPrompt
                      ELSE undefined

(* C15 amended: with the policy active the resolved systemPrompt is the      *)
(* policy's, else defaultSettings', else the guardrail text, and is never    *)
(* absent; the resolved appendSystemPrompt is made of the policy's value and *)
(* defaultSettings' value, each left out when absent or blank: both joined   *)
(* by a blank line with the policy's first, the one that remains alone, or   *)
(* absent when none remains.                                                 *)
C15_PromptFallbackAppendJoined ==
    (SettingsCall /\ PolicyActive) =>
        LET p == SuppliedPolicy.appendSystemPrompt
            u == SuppliedDefaults.appendSystemPrompt
        IN  /\ IsDefined(Resolved.systemPrompt)
            /\ Resolved.systemPrompt
                   = IF IsDefined(SuppliedPolicy.systemPrompt)
                     THEN SuppliedPolicy.systemPrompt
                     ELSE IF IsDefined(SuppliedDefaults.systemPrompt)
                          THEN SuppliedDefaults.systemPrompt
                          ELSE Some(DEFAULT_CUSTOM_TOOLS_SYSTEM_PROMPT)
            /\ Resolved.appendSystemPrompt
                   = CASE ~IsBlank(p) /\ ~IsBlank(u) -> Some(Val(p) \o "\n\n" \o Val(u))
                       [] ~IsBlank(p) /\ IsBlank(u)  -> p
                       [] IsBlank(p) /\ ~IsBlank(u)  -> u
                       [] OTHER                      -> undefined

C15_Witness ==
    /\ SettingsCall
    /\ SuppliedPolicy.kind = "object"
    /\ SuppliedPolicy.systemPrompt = undefined
    /\ SuppliedPolicy.appendSystemPrompt = Some("append")
    /\ SuppliedDefaults.systemPrompt = Some("user prompt")
    /\ SuppliedDefaults.appendSystemPrompt = Some("user append")
    /\ Resolved.systemPrompt = Some("user prompt")
    /\ Resolved.appendSystemPrompt = Some("append\n\nuser append")

\* whether a boolean option that defaults to true is on
FlagOn(flag) == flag # Some(FALSE)

\* the built-in groups the flags of the latest call enable, in their order
EnabledGroups ==
    (IF FlagOn(last.args.options.includeDefaultAllowedTools)
     THEN <<"Bash", "Read", "Write", "Edit", "LS", "Grep", "Glob", "TodoRead", "TodoWrite">>
     ELSE <<>>)
    \o (IF FlagOn(last.args.options.enableWebSearchMcp)
        THEN <<"mcp__web-search-prime__webSearchPrime">> ELSE <<>>)
    \o (IF FlagOn(last.args.options.enableWebReaderMcp)
        THEN <<"mcp__web-reader__webReader", "WebFetch">> ELSE <<>>)
    \o (IF FlagOn(last.args.options.enableVisionMcp)
        THEN <<"mcp__zai-vision__image_analysis", "mcp__zai-vision__video_analysis",
               "mcp__zai-vision__analyze_image", "mcp__zai-vision__analyze_video">>
        ELSE <<>>)

(* C17 as stated: with the policy inactive the resolved allowlist is the     *)
(* merge of the enabled built-in groups, in the order core, web-search,      *)
(* web-reader, vision, with defaultSettings.allowedTools; the resolved       *)
(* disallowed list is defaultSettings.disallowedTools deduplicated, or       *)
(* absent when that is empty or missing; the prompts are defaultSettings'.   *)
C17_InactivePolicySettings ==
    (SettingsCall /\ ~PolicyActive) =>
        /\ Resolved.allowedTools
               = NonEmptyOrAbsent(ExpectedMerge(EnabledGroups,
                                                OrElse(SuppliedDefaults.allowedTools, <<>>)))
        /\ Resolved.disallowedTools
               = NonEmptyOrAbsent(Deduplicated(OrElse(SuppliedDefaults.disallowedTools, <<>>)))
        /\ Resolved.systemPrompt = SuppliedDefaults.systemPrompt
        /\ Resolved.appendSystemPrompt = SuppliedDefaults.appendSystemPrompt

(* C17 amended: as stated, but the resolved disallowed list is               *)
(* defaultSettings.disallowedTools deduplicated and without its empty        *)
(* entries, or absent when no entry remains.                                 *)
C17_InactivePolicyDropsEmptyNames ==
    (SettingsCall /\ ~PolicyActive) =>
        /\ Resolved.allowedTools
               = NonEmptyOrAbsent(ExpectedMerge(EnabledGroups,
                                                OrElse(SuppliedDefaults.allowedTools, <<>>)))
        /\ Resolved.disallowedTools
               = NonEmptyOrAbsent(
                     Deduplicated(SelectSeq(OrElse(SuppliedDefaults.disallowedTools, <<>>),
                                            LAMBDA name : name # "")))
        /\ Resolved.systemPrompt = SuppliedDefaults.systemPrompt
        /\ Resolved.appendSystemPrompt = SuppliedDefaults.appendSystemPrompt

C17_Witness ==
    /\ SettingsCall
    /\ ~PolicyActive
    /\ last.args.options.includeDefaultAllowedTools = Some(FALSE)
    /\ last.args.options.enableWebSearchMcp = Some(FALSE)
    /\ last.args.options.enableWebReaderMcp = Some(FALSE)
    /\ last.args.options.enableVisionMcp = Some(FALSE)
    /\ SuppliedDefaults.allowedTools = Some(<<"CustomTool">>)
    /\ Resolved.allowedTools = Some(<<"CustomTool">>)
    /\ Resolved.disallowedTools = undefined

(* C19: every settings record createZaiClaudeCode produces has               *)
(* permissionMode bypassPermissions unless defaultSettings.permissionMode is *)
(* supplied, and then has the supplied value, with the policy active or      *)
(* inactive.                                                                 *)
C19_PermissionMode ==
    SettingsCall =>
        Resolved.permissionMode
            = IF IsDefined(SuppliedDefaults.permissionMode)
              THEN Val(SuppliedDefaults.permissionMode)
              ELSE "bypassPermissions"

C19_Witness ==
    /\ SettingsCall
    /\ PolicyActive
    /\ SuppliedDefaults.permissionMode = Some("plan")
    /\ Resolved.permissionMode = "plan"

\* the key, the base URL and the alias identifiers the latest call resolved from
\* its options
SuppliedKey ==
    IF IsDefined(last.args.options.apiKey)
    THEN Val(last.args.options.apiKey)
    ELSE Val(last.args.environment.ZAI_API_KEY)

SuppliedBaseUrl == OrElse(last.args.options.anthropicBaseUrl, "https://api.z.ai/api/anthropic")

SuppliedTimeoutText ==
    CASE last.args.options.timeoutMs = undefined   -> "300000"
      [] last.args.options.timeoutMs = Some(42000) -> "42000"
      [] last.args.options.timeoutMs = Some(0)     -> "0"

SuppliedModel(alias) ==
    LET overrides == OrElse(last.args.options.modelMappings, <<>>)
    IN  IF alias \in ObjKeys(overrides)
        THEN Val(ObjGet(overrides, alias))
        ELSE IF alias = "haiku" THEN "glm-4.5-air" ELSE "glm-4.6"

\* the six generated entries of the environment
GeneratedEntries ==
    << <<"ANTHROPIC_BASE_URL", SuppliedBaseUrl>>,
       <<"ANTHROPIC_AUTH_TOKEN", SuppliedKey>>,
       <<"API_TIMEOUT_MS", SuppliedTimeoutText>>,
       <<"ANTHROPIC_DEFAULT_SONNET_MODEL", SuppliedModel("sonnet")>>,
       <<"ANTHROPIC_DEFAULT_OPUS_MODEL", SuppliedModel("opus")>>,
       <<"ANTHROPIC_DEFAULT_HAIKU_MODEL", SuppliedModel("haiku")>> >>

(* C16: the resolved env is the six generated entries overlaid by            *)
(* defaultSettings.env: it has the keys of both and no others, carries       *)
(* defaultSettings' value on every key defaultSettings.env sets and the      *)
(* generated value on every other; and the generated entries for a timeout   *)
(* of 42000 differ from those for 300000 in API_TIMEOUT_MS alone, which is   *)
(* the text 42000.                                                           *)
C16_ResolvedEnvironment ==
    SettingsCall =>
        LET overlay == OrElse(SuppliedDefaults.env, <<>>)
            table == last.value.mappings
            a == buildZaiEnv(SuppliedBaseUrl, SuppliedKey, 300000, table)
            b == buildZaiEnv(SuppliedBaseUrl, SuppliedKey, 42000, table)
        IN  /\ ObjKeys(Resolved.env) = ObjKeys(GeneratedEntries) \cup ObjKeys(overlay)
            /\ Len(Resolved.env) = Cardinality(ObjKeys(Resolved.env))
            /\ \A k \in ObjKeys(overlay) : ObjGet(Resolved.env, k) = ObjGet(overlay, k)
            /\ \A k \in ObjKeys(GeneratedEntries) \ ObjKeys(overlay) :
                   ObjGet(Resolved.env, k) = ObjGet(GeneratedEntries, k)
            /\ Len(a) = Len(b)
            /\ \A i \in DOMAIN a :
                   IF a[i][1] = "API_TIMEOUT_MS"
                   THEN a[i][2] = "300000" /\ b[i] = <<"API_TIMEOUT_MS", "42000">>
                   ELSE a[i] = b[i]

C16_Witness ==
    /\ SettingsCall
    /\ last.args.options.timeoutMs = Some(42000)
    /\ SuppliedDefaults.env = Some(<< <<"ANTHROPIC_DEFAULT_OPUS_MODEL", "pinned-model">> >>)
    /\ ObjGet(Resolved.env, "API_TIMEOUT_MS") = Some("42000")
    /\ ObjGet(Resolved.env, "ANTHROPIC_DEFAULT_OPUS_MODEL") = Some("pinned-model")
    /\ ObjGet(Resolved.env, "ANTHROPIC_DEFAULT_SONNET_MODEL") = Some("glm-4.6")

\* the keys of the built-in descriptors the latest call's flags and policy enable
BuiltinServerKeys ==
    IF PolicyActive
    THEN {}
    ELSE (IF FlagOn(last.args.options.enableWebSearchMcp) THEN {"web-search-prime"} ELSE {})
         \cup (IF FlagOn(last.args.options.enableWebReaderMcp) THEN {"web-reader"} ELSE {})
         \cup (IF FlagOn(last.args.options.enableVisionMcp) THEN {"zai-vision"} ELSE {})

\* the http descriptor of a built-in server
BuiltinHttp(url) ==
    [type |-> "http", url |-> url,
     headers |-> << <<"Authorization", "Bearer " \o SuppliedKey>> >>]

\* whether d is the stdio descriptor built from the visionCommand of the latest call
IsBuiltinVision(d) ==
    LET supplied == last.args.options.visionCommand
        cmdEnv == IF IsDefined(supplied) THEN OrElse(Val(supplied).env, <<>>) ELSE <<>>
    IN  /\ d.type = "stdio"
        /\ d.command = IF IsDefined(supplied) THEN Val(supplied).command ELSE "npx"
        /\ d.args = IF IsDefined(supplied) /\ IsDefined(Val(supplied).args)
                    THEN Val(Val(supplied).args)
                    ELSE <<"-y", "@z_ai/mcp-server">>
        /\ ObjKeys(d.env) = {"Z_AI_API_KEY", "Z_AI_MODE"} \cup ObjKeys(cmdEnv)
        /\ \A k \in ObjKeys(cmdEnv) : ObjGet(d.env, k) = ObjGet(cmdEnv, k)
        /\ "Z_AI_API_KEY" \notin ObjKeys(cmdEnv) =>
               ObjGet(d.env, "Z_AI_API_KEY") = Some(SuppliedKey)
        /\ "Z_AI_MODE" \notin ObjKeys(cmdEnv) => ObjGet(d.env, "Z_AI_MODE") = Some("ZAI")

(* C18: the resolved mcpServers is the built-in descriptors of the enabled   *)
(* capabilities overlaid by the caller's mapping: it has the keys of both, a *)
(* caller's entry stands whole in place of a built-in entry of its key, and  *)
(* the other built-in entries are the http descriptors with the bearer key   *)
(* and the stdio descriptor built from visionCommand; it is absent when no   *)
(* capability is enabled and the caller supplied no mapping.                 *)
C18_AuxiliaryServers ==
    SettingsCall =>
        LET user == SuppliedDefaults.mcpServers
            userMap == OrElse(user, <<>>)
            servers == OrElse(Resolved.mcpServers, <<>>)
            builtinOnly == BuiltinServerKeys \ ObjKeys(userMap)
        IN  /\ IsDefined(Resolved.mcpServers)
                   <=> (IsDefined(user) \/ BuiltinServerKeys # {})
            /\ ObjKeys(servers) = BuiltinServerKeys \cup ObjKeys(userMap)
            /\ Len(servers) = Cardinality(ObjKeys(servers))
            /\ \A k \in ObjKeys(userMap) : ObjGet(servers, k) = ObjGet(userMap, k)
            /\ "web-search-prime" \in builtinOnly =>
                   ObjGet(servers, "web-search-prime")
                       = Some(BuiltinHttp("https://api.z.ai/api/mcp/web_search_prime/mcp"))
            /\ "web-reader" \in builtinOnly =>
                   ObjGet(servers, "web-reader")
                       = Some(BuiltinHttp("https://api.z.ai/api/mcp/web_reader/mcp"))
            /\ "zai-vision" \in builtinOnly =>
                   IsBuiltinVision(Val(ObjGet(servers, "zai-vision")))

C18_Witness ==
    /\ SettingsCall
    /\ ~PolicyActive
    /\ last.args.options.enableWebSearchMcp = Some(FALSE)
    /\ FlagOn(last.args.options.enableWebReaderMcp)
    /\ FlagOn(last.args.options.enableVisionMcp)
    /\ IsDefined(last.args.options.visionCommand)
    /\ Val(last.args.options.visionCommand).command = "uvx"
    /\ ObjGet(OrElse(SuppliedDefaults.mcpServers, <<>>), "web-reader") = Some(UserServer)
    /\ ObjGet(Val(Resolved.mcpServers), "web-reader") = Some(UserServer)
    /\ ObjGet(Val(ObjGet(Val(Resolved.mcpServers), "zai-vision")).env, "Z_AI_MODE")
           = Some("CUSTOM")

----------------------------------------------------------------------------
(* HTTP model resolution *)

\* the operations that call an HTTP provider
HttpCallOps == {"httpProvider", "zaiAnthropic"}

\* the options the provider behind the latest call was created with
HttpOptionsBehind == IF last.op = "httpProvider" THEN input.options ELSE EmptyHttpOptions

\* whether id starts with glm- in any mix of upper and lower case
StartsWithGlm(id) ==
    /\ Len(id) >= 4
    /\ SubSeq(id, 1, 1) \in {"g", "G"}
    /\ SubSeq(id, 2, 2) \in {"l", "L"}
    /\ SubSeq(id, 3, 3) \in {"m", "M"}
    /\ SubSeq(id, 4, 4) = "-"

\* the fallback the precedence options, ZAI_HTTP_FALLBACK_MODEL, ZAI_HTTP_MODEL picks:
\* disabled (false), or a text, which is empty when none of the three is set
FallbackDisabled ==
    /\ IsDefined(HttpOptionsBehind.glmFallbackModel)
    /\ Val(HttpOptionsBehind.glmFallbackModel).isFalse

FallbackText ==
    IF IsDefined(HttpOptionsBehind.glmFallbackModel)
    THEN Val(HttpOptionsBehind.glmFallbackModel).model
    ELSE IF IsDefined(env.ZAI_HTTP_FALLBACK_MODEL)
         THEN Val(env.ZAI_HTTP_FALLBACK_MODEL)
         ELSE IF IsDefined(env.ZAI_HTTP_MODEL) THEN Val(env.ZAI_HTTP_MODEL) ELSE ""

(* C20: an HTTP provider hands a requested identifier that does not start    *)
(* with glm- (in any case) to the Anthropic client unchanged; one that does  *)
(* is replaced by the fallback picked in the order options.glmFallbackModel, *)
(* ZAI_HTTP_FALLBACK_MODEL, ZAI_HTTP_MODEL, built-in default, an empty       *)
(* fallback giving the built-in default; with glmFallbackModel false such an *)
(* identifier raises an error and the client is not called.                  *)
C20_HttpModelResolution ==
    last.op \in HttpCallOps =>
        LET id == last.args.modelId
        IN  /\ ~StartsWithGlm(id) =>
                   /\ ~last.threw
                   /\ last.value.modelId = id
                   /\ trace = << [fn |-> "anthropic", args |-> <<id>>] >>
            /\ (StartsWithGlm(id) /\ FallbackDisabled) =>
                   /\ last.threw
                   /\ Contains(last.error, "Model \"" \o id \o "\" is only supported")
                   /\ trace = <<>>
            /\ (StartsWithGlm(id) /\ ~FallbackDisabled) =>
                   /\ ~last.threw
                   /\ last.value.modelId
                          = IF FallbackText = "" THEN "claude-4.5-sonnet-20241022"
                            ELSE FallbackText
                   /\ trace = << [fn |-> "anthropic", args |-> <<last.value.modelId>>] >>

C20_Witness ==
    /\ last.op = "httpProvider"
    /\ last.args.modelId = "GLM-4.5"
    /\ input.options.glmFallbackModel = undefined
    /\ env.ZAI_HTTP_FALLBACK_MODEL = undefined
    /\ env.ZAI_HTTP_MODEL = Some("env-model")
    /\ ~last.threw
    /\ last.value.modelId = "env-model"

----------------------------------------------------------------------------
(* Forced tool injection *)

\* a call of forceCustomTools that has ended, and one that returned
ForceEnded == last.op = "forceCustomTools"
ForceReturned == ForceEnded /\ ~last.threw

\* the arguments of the latest call of forceCustomTools
ForceCall == last.args.call

\* the external calls of the latest operation to the function fn
CallsOf(fn) == SelectSeq(trace, LAMBDA call : call.fn = fn)

\* the messages the latest call handed to streamText
Delegated == CallsOf("streamText")[1].args[1].messages

(* C21: in every run of forceCustomTools that returns, the execute of the    *)
(* named tool was invoked exactly once, with the tool input, the toolCallId  *)
(* "forced:" followed by the tool name and the caller's messages; streamText *)
(* was invoked exactly once, after execute had completed, with the caller's  *)
(* model and tool map and toolChoice pinned to the named tool; the value     *)
(* returned is streamText's. While execute has not completed streamText has  *)
(* not been invoked.                                                         *)
C21_ForcedInjectionOrdering ==
    /\ ForceReturned =>
           /\ Len(trace) = 2
           /\ trace[1].fn = "execute"
           /\ trace[1].tool = ForceCall.toolName
           /\ trace[1].args[1] = ForceCall.toolInput
           /\ trace[1].args[2].toolCallId = "forced:" \o ForceCall.toolName
           /\ trace[1].args[2].messages = ForceCall.messages
           /\ trace[2].fn = "streamText"
           /\ trace[2].args[1].model = ForceCall.model
           /\ trace[2].args[1].tools = ForceCall.tools
           /\ trace[2].args[1].toolChoice = [type |-> "tool", toolName |-> ForceCall.toolName]
           /\ last.value = [streamed |-> trace[2].args[1]]
    /\ IsDefined(frame) =>
           /\ Len(CallsOf("execute")) = 1
           /\ Len(CallsOf("streamText")) = 0

C21_Witness ==
    /\ ForceReturned
    /\ ForceCall.toolName = "echo_tool"
    /\ Len(ForceCall.tools) = 2
    /\ Len(ForceCall.messages) = 2
    /\ last.args.settled = Some(Return(Some("echoed")))
    /\ trace[1].args[2].toolCallId = "forced:echo_tool"
    /\ last.value.streamed.toolChoice.toolName = "echo_tool"

\* whether the latest call shows an acknowledgement, and its text
AcknowledgementText == OrElse(ForceCall.acknowledgement, DEFAULT_ACKNOWLEDGEMENT)

\* whether turn is the synthetic assistant turn of the latest call: a
\* tool-call block, a tool-result block with the value execute returned and,
\* unless the acknowledgement is empty, a text block holding it
IsSyntheticTurn(turn) ==
    /\ turn.role = "assistant"
    /\ Len(turn.content) = IF AcknowledgementText = "" THEN 2 ELSE 3
    /\ turn.content[1] = [type |-> "tool-call", toolName |-> ForceCall.toolName,
                          args |-> ForceCall.toolInput]
    /\ turn.content[2] = [type |-> "tool-result", toolName |-> ForceCall.toolName,
                          result |-> Val(last.args.settled).value]
    /\ AcknowledgementText # "" =>
           turn.content[3] = [type |-> "text", text |-> AcknowledgementText]

(* C22 as stated: the messages forceCustomTools hands to streamText are the  *)
(* caller's messages, in order, followed by the synthetic assistant turn,    *)
(* and nothing else.                                                         *)
C22_DelegatedIsHistoryPlusTurn ==
    ForceReturned =>
        /\ Len(Delegated) = Len(ForceCall.messages) + 1
        /\ SubSeq(Delegated, 1, Len(ForceCall.messages)) = ForceCall.messages
        /\ IsSyntheticTurn(Delegated[Len(Delegated)])

(* C22 amended: the messages forceCustomTools hands to streamText are a      *)
(* system message, then the caller's messages in order, then the synthetic   *)
(* assistant turn as the last message; the system message holds the          *)
(* argument systemPrompt when that is supplied (an empty one included) and   *)
(* the default guardrail prompt otherwise; an acknowledgement that is not    *)
(* supplied is the default acknowledgement text.                             *)
C22_DelegatedIsSystemHistoryTurn ==
    ForceReturned =>
        /\ Len(Delegated) = Len(ForceCall.messages) + 2
        /\ Delegated[1].role = "system"
        /\ Delegated[1].content
               = IF IsDefined(ForceCall.systemPrompt)
                 THEN Val(ForceCall.systemPrompt)
                 ELSE DEFAULT_CUSTOM_TOOLS_SYSTEM_PROMPT
        /\ SubSeq(Delegated, 2, Len(ForceCall.messages) + 1) = ForceCall.messages
        /\ IsSyntheticTurn(Delegated[Len(Delegated)])

C22_Witness ==
    /\ ForceReturned
    /\ ForceCall.systemPrompt = undefined
    /\ ForceCall.acknowledgement = Some("")
    /\ Len(ForceCall.messages) = 2
    /\ Len(Delegated) = 4
    /\ Delegated[2] = [role |-> "system", content |-> "be concise"]
    /\ Len(Delegated[4].content) = 2
    /\ Delegated[4].content[2].result = Some("echoed")

\* the tools of the latest call's tool map under the name it gives
NamedTools ==
    {ForceCall.tools[i][2] : i \in {j \in DOMAIN ForceCall.tools :
                                        ForceCall.tools[j][1] = ForceCall.toolName}}

(* C23: when the named tool is absent from the tool map or its execute is    *)
(* not a function, forceCustomTools fails with the tool-not-found error,     *)
(* whose message names the tool; no execute has been invoked, streamText has *)
(* not been called and no call is left suspended.                            *)
C23_ToolNotFound ==
    ( /\ last.op \in {"forceCustomTools", "execute"}
      /\ last.args.settled = undefined
      /\ \A tool \in NamedTools : tool.execute # Some("function") )
    => /\ ForceEnded
       /\ last.threw
       /\ last.error = ToolNotFoundMessage(ForceCall.toolName)
       /\ Contains(last.error, "Tool \"" \o ForceCall.toolName \o "\"")
       /\ last.value = undefined
       /\ trace = <<>>
       /\ frame = undefined

C23_Witness ==
    /\ ForceEnded
    /\ last.threw
    /\ ForceCall.toolName = "echo_tool"
    /\ ObjGet(ForceCall.tools, "echo_tool") = Some(Tool(Some("string")))
    /\ ObjGet(ForceCall.tools, "other_tool") = Some(Tool(Some("function")))
    /\ last.error = "Tool \"echo_tool\" is not defined or missing an execute handler."

(* C29: when the execute of the forced tool throws or rejects, the call of   *)
(* forceCustomTools fails with that same error, streamText has not been      *)
(* invoked and no synthetic turn exists; whether execute failed or returned, *)
(* the caller's messages and tool map are afterwards what they were.         *)
C29_ExecuteFailurePropagates ==
    (ForceEnded /\ IsDefined(last.args.settled)) =>
        /\ input.messages = ForceCall.messages
        /\ input.tools = ForceCall.tools
        /\ Val(last.args.settled).threw =>
               /\ last.threw
               /\ last.error = Val(last.args.settled).error
               /\ last.value = undefined
               /\ Len(CallsOf("streamText")) = 0
               /\ Len(CallsOf("execute")) = 1
               /\ \A i \in DOMAIN input.messages : input.messages[i].role # "assistant"

C29_Witness ==
    /\ ForceEnded
    /\ last.args.settled = Some(Throw("tool failed"))
    /\ last.error = "tool failed"
    /\ Len(ForceCall.messages) = 2
    /\ trace = <<ExecuteCall(ForceCall)>>

----------------------------------------------------------------------------
(* The two merges *)

(* C26: mergeAllowedTools and mergeStringLists return the same result for    *)
(* every default list and user list: what one returned for its arguments is  *)
(* what the other returns for them.                                          *)
C26_MergesAgree ==
    /\ last.op = "mergeAllowedTools" =>
           last.value = mergeStringLists(last.args.defaults, last.args.user)
    /\ last.op = "mergeStringLists" =>
           last.value = mergeAllowedTools(last.args.defaults, last.args.user)

C26_Witness ==
    /\ last.op = "mergeStringLists"
    /\ last.args.defaults = <<"", "Read", "Read">>
    /\ last.args.user = Some(<<"", "read", "read">>)
    /\ last.value = Some(<<"", "Read", "Read", "read">>)
    /\ mergeAllowedTools(last.args.defaults, last.args.user) = last.value

----------------------------------------------------------------------------
(* Prompt-append composition *)

\* the parts of the latest call of mergeSystemPromptAppend that survive: those
\* that are present and hold a character that is not white space
Survivors ==
    SelectSeq(<<last.args.customAppend, last.args.userAppend>>,
              LAMBDA part : /\ part # undefined
                            /\ \E i \in 1..Len(Val(part)) :
                                   SubSeq(Val(part), i, i) \notin {" ", "\t", "\n", "\r"})

\* s begins, or ends, with the blank line that separates the parts
BeginsWithSeparator(s) == Len(s) >= 2 /\ SubSeq(s, 1, 2) = "\n\n"
EndsWithSeparator(s) == Len(s) >= 2 /\ SubSeq(s, Len(s) - 1, Len(s)) = "\n\n"

\* the result the composition states: absent without a survivor, the survivor
\* itself when there is one, the two joined by a blank line otherwise
ExpectedAppend ==
    IF Len(Survivors) = 0 THEN undefined
    ELSE IF Len(Survivors) = 1 THEN Survivors[1]
    ELSE Some(Val(Survivors[1]) \o "\n\n" \o Val(Survivors[2]))

(* C27 as stated: mergeSystemPromptAppend returns the surviving parts, kept  *)
(* verbatim and joined by a blank line, the first argument's before the      *)
(* second's, and undefined when no part survives; the result never begins or *)
(* ends with the separator.                                                  *)
C27_AppendNeverEdgedBySeparator ==
    last.op = "mergeSystemPromptAppend" =>
        /\ last.value = ExpectedAppend
        /\ IsDefined(last.value) =>
               /\ ~BeginsWithSeparator(Val(last.value))
               /\ ~EndsWithSeparator(Val(last.value))

(* C27 amended: as stated, but the result begins (ends) with the separator   *)
(* exactly when its first (last) surviving part does; the composition itself *)
(* adds a separator only between two survivors.                              *)
C27_AppendComposition ==
    last.op = "mergeSystemPromptAppend" =>
        /\ last.value = ExpectedAppend
        /\ IsDefined(last.value) =>
               /\ BeginsWithSeparator(Val(last.value))
                      <=> BeginsWithSeparator(Val(Survivors[1]))
               /\ EndsWithSeparator(Val(last.value))
                      <=> EndsWithSeparator(Val(Survivors[Len(Survivors)]))

C27_Witness ==
    /\ last.op = "mergeSystemPromptAppend"
    /\ last.args.customAppend = Some(" a ")
    /\ last.args.userAppend = Some("\n\nb")
    /\ last.value = Some(" a \n\n\n\nb")

----------------------------------------------------------------------------
(* The default providers *)

\* the constructions of a provider among the external calls of an operation
Constructions(calls) == SelectSeq(calls, LAMBDA call : call.fn = "createClaudeCode")

\* the auth token in the settings of a model handle
AuthToken(handle) == ObjGet(handle.settings.env, "ANTHROPIC_AUTH_TOKEN")

\* what an entry point of the explicitly constructed provider p returns for
\* the arguments of the operation op
ExplicitResult(p, op) ==
    WrappedProviderCall(p, op.args.entry, op.args.modelId,
                        IF op.args.entry \in ResolvingEntries THEN op.args.settings
                        ELSE undefined)

(* C24: in every invocation of an entry point of zaiClaudeCode, whatever the *)
(* ambient key has become: when an instance is cached it stays the cached    *)
(* instance, no provider is constructed and the invocation returns what that *)
(* instance returns for the same arguments; when none is cached and the      *)
(* invocation caches one, it is the provider createZaiClaudeCode() makes     *)
(* with the ambient key of that moment, constructed once, and the invocation *)
(* returns what that provider returns.                                       *)
C24_MemoizedDefaultProvider ==
    [][ last'.op = "zaiClaudeCode" =>
          /\ IsDefined(inner) =>
                 /\ inner' = inner
                 /\ Len(Constructions(trace')) = 0
          /\ (~IsDefined(inner) /\ IsDefined(inner')) =>
                 /\ inner' = Some(createZaiClaudeCode(EmptyOptions, env.ZAI_API_KEY).value)
                 /\ Len(Constructions(trace')) = 1
                 /\ AuthToken(BaseProviderCall(Val(inner').base, "chat", "glm-4.6",
                                               undefined).value)
                        = env.ZAI_API_KEY
          /\ IsDefined(inner') =>
                 LET explicit == ExplicitResult(Val(inner'), last')
                 IN  /\ last'.threw = explicit.threw
                     /\ last'.error = explicit.error
                     /\ last'.value = explicit.value
      ]_vars

C24_Witness ==
    /\ last.op = "zaiClaudeCode"
    /\ ~last.threw
    /\ last.args.environment.ZAI_API_KEY = Some("env-key")
    /\ AuthToken(last.value) = Some("lazy-key")
    /\ inner = Some(createZaiClaudeCode(EmptyOptions, Some("lazy-key")).value)
    /\ Len(Constructions(trace)) = 0

(* C25: loading the module succeeds whatever the ambient key is and reads no *)
(* credential; the key is read when a default instance is first used, so the *)
(* first use of zaiClaudeCode carries the ambient key of that moment.        *)
C25_NoEagerCredentialResolution ==
    /\ module # "failed"
    /\ last.op = "load" => (~last.threw /\ trace = <<>>)
    /\ (last.op = "zaiClaudeCode" /\ ~last.threw /\ Len(Constructions(trace)) = 1) =>
           AuthToken(last.value) = last.args.environment.ZAI_API_KEY

(* C28: an invocation of zaiClaudeCode with no instance cached and the       *)
(* ambient key missing or empty fails with the missing-credential error,     *)
(* makes no external call and leaves the cache empty, however often it is    *)
(* repeated; with no instance cached and a key set it caches the provider    *)
(* and does not fail for the credential (it returns for a supported model or *)
(* a bound entry point); a cached instance is never dropped or replaced.     *)
C28_FailedFirstUseNotCached ==
    [][ /\ IsDefined(inner) => inner' = inner
        /\ (last'.op = "zaiClaudeCode" /\ ~IsDefined(inner)) =>
               IF ~IsDefined(env.ZAI_API_KEY) \/ env.ZAI_API_KEY = Some("")
               THEN /\ last'.threw
                    /\ last'.error = MISSING_KEY_MESSAGE
                    /\ inner' = undefined
                    /\ trace' = <<>>
               ELSE /\ IsDefined(inner')
                    /\ last'.error # MISSING_KEY_MESSAGE
                    /\ (last'.args.entry \in BoundEntries \/ last'.args.modelId = "glm-4.6")
                           => ~last'.threw
      ]_vars

C28_Witness ==
    /\ last.op = "zaiClaudeCode"
    /\ last.threw
    /\ last.error = MISSING_KEY_MESSAGE
    /\ last.args.environment.ZAI_API_KEY = undefined
    /\ inner = undefined
    /\ zaiAnthropic # undefined

----------------------------------------------------------------------------
(* Tool names and server wiring *)

Capabilities == {"web-search", "web-reader", "vision"}

\* the built-in tool names of a capability, the key of its descriptor and its
\* enable flag in the options of the latest call
CapabilityTools(c) ==
    IF c = "web-search" THEN {"mcp__web-search-prime__webSearchPrime"}
    ELSE IF c = "web-reader" THEN {"mcp__web-reader__webReader", "WebFetch"}
    ELSE {"mcp__zai-vision__image_analysis", "mcp__zai-vision__video_analysis",
          "mcp__zai-vision__analyze_image", "mcp__zai-vision__analyze_video"}

CapabilityServer(c) ==
    IF c = "web-search" THEN "web-search-prime"
    ELSE IF c = "web-reader" THEN "web-reader"
    ELSE "zai-vision"

CapabilityFlag(c) ==
    IF c = "web-search" THEN last.args.options.enableWebSearchMcp
    ELSE IF c = "web-reader" THEN last.args.options.enableWebReaderMcp
    ELSE last.args.options.enableVisionMcp

\* the names in the resolved allowlist and the keys of the resolved mcpServers
AllowedNames ==
    {Val(last.value.base.defaultSettings.allowedTools)[i] :
         i \in 1..Len(OrElse(last.value.base.defaultSettings.allowedTools, <<>>))}
ServerKeys ==
    {Val(last.value.base.defaultSettings.mcpServers)[i][1] :
         i \in 1..Len(OrElse(last.value.base.defaultSettings.mcpServers, <<>>))}

=============================================================================
